---- MODULE Spec2Model ----
(***************************************************************************)
(* Model of the software colour-grading tools of josedlhm/extraction:      *)
(*   color_correct.py  - playback viewer with software "registers"         *)
(*                       (proc_vals), key handling and apply_svo_pipeline  *)
(*   single_frame.py   - trackbar preview with render                      *)
(* Python strings are modelled as tuples of one-character strings so that  *)
(* str.upper() and str.replace() are computed, not assumed.                *)
(***************************************************************************)
EXTENDS Integers, Sequences, FiniteSets, TLC

VARIABLES
    mainpc,               \* position of main(): "start" | "loop"
    is_playback,          \* color_correct.py global
    camera_settings,      \* color_correct.py global: the sl.VIDEO_SETTINGS member being edited
    str_camera_settings,  \* color_correct.py global: its display string
    proc_vals,            \* color_correct.py global: software registers
    led_on,               \* color_correct.py global
    cam_vals,             \* device registers behind cam.get/set_camera_settings
    cam_calls,            \* device write calls issued by the last key handler
    last_key,             \* key code handled by the last step (0 = none yet)
    inc_outcome,          \* how the last _inc_proc call ended: "none" | "stored" | "returned" | "raised"
    prev_vals,            \* proc_vals before the last key handler ran
    prev_setting,         \* camera_settings before the last key handler ran
    ncmd,                 \* number of key commands handled so far
    s_run,                \* settings visited by the current run of consecutive 's' presses
    prog,                 \* which program runs: "color_correct" | "single_frame"
    rpc,                  \* position in the frame part of the loop:
                          \*   "grab" | "bc" | "wb" | "hs" | "sh" | "ret" | "key" | "elided"
    src_frame,            \* the caller's frame (img0 of single_frame.py, frame of color_correct.py)
    work_img,             \* the local img of render / apply_svo_pipeline
    params,               \* single_frame.py: the dict returned by tb_get_params()
    tb,                   \* single_frame.py: trackbar positions
    chain,                \* values work_img has taken in the current render, oldest first
    vis,                  \* the frame handed to cv2.imshow
    rendered,             \* <<frame, parameters, output>> of every completed render
    nrender,              \* number of completed loop iterations
    st_fn,                \* stage function applied last in SpecStages ("none" before)
    st_in,                \* its input frame
    st_args,              \* its numeric arguments
    st_out,               \* its result
    sf_k,                 \* single_frame.py: k, the key read last by waitKey (-1 before)
    printed,              \* single_frame.py: what print_sdk_snippet wrote last (<<>> before)
    settings_file,        \* single_frame.py: content of zed_settings.json (<<>> while absent)
    preview_file,         \* single_frame.py: the image in preview.png (NoFrame while absent)
    ex_pc,                \* extract.py: position in extract_svo2
                          \*   "idle" | "call" | "loop" | "close" | "done" | "raised"
    total,                \* extract.py: zed.get_svo_number_of_frames()
    max_frames,           \* extract.py: the argument max_frames (None = no limit)
    limit,                \* extract.py: limit
    frame_idx,            \* extract.py: frame_idx
    svo_pos,              \* extract.py: frames of the recording consumed by zed.grab
    images,               \* extract.py: indices of the img_*.png written, in write order
    depths,               \* extract.py: indices of the depth_*.npy written, in write order
    pose_rows,            \* extract.py: first column of the rows of poses.csv after the header
    grab_failed,          \* extract.py: a zed.grab of this call did not return SUCCESS
    vw_prog,              \* viewer running: "camera_control" | "camera_settings" ("none" otherwise)
    vw_pc,                \* position in its main(): "idle" | "top" | "wait" | "exit"
    paused,               \* camera_control.py / camera_settings.py: paused
    vw_key,               \* the local variable key of main()
    vw_iters,             \* loop iterations begun
    heap,                 \* frame objects alive in the current render, by object number:
                          \*   heap[i] is the pixel content of object i
    arg_ref,              \* object passed to render / apply_svo_pipeline (0 = no call yet)
    img_ref,              \* object the local variable img refers to
    call_params,          \* parameter values when the render was called (<<>> before)
    vw_log                \* events so far, oldest first: <<kind, key, paused after the event>>,
                          \*   kind "iter" (an iteration begins) | "grab" (cam.grab is called)
                          \*   | "key" (waitKey returned and the key was handled)

storeVars == <<mainpc, is_playback, camera_settings, str_camera_settings, proc_vals,
               led_on, cam_vals, cam_calls, last_key, inc_outcome, prev_vals,
               prev_setting, ncmd, s_run>>

renderVars == <<prog, rpc, src_frame, work_img, params, tb, chain, vis, rendered, nrender>>

stageVars == <<st_fn, st_in, st_args, st_out>>

exportVars == <<sf_k, printed, settings_file, preview_file>>

extractVars == <<ex_pc, total, max_frames, limit, frame_idx, svo_pos, images, depths,
                 pose_rows, grab_failed>>

viewerVars == <<vw_prog, vw_pc, paused, vw_key, vw_iters, vw_log>>

heapVars == <<heap, arg_ref, img_ref, call_params>>

otherVars == <<exportVars, extractVars, viewerVars, heapVars>>

vars == <<storeVars, renderVars, stageVars, otherVars>>

-----------------------------------------------------------------------------
(* Bounds *)

MaxCmds == 3        \* key commands per behaviour of Spec
MaxPresses == 250   \* '+' presses per behaviour of SpecBright
MaxCycle == 9       \* 's' presses per behaviour of SpecCycle
MaxRenders == 3     \* loop iterations per behaviour of SpecRender
FrameW == 2         \* pixels per frame
MaxTotal == 4       \* frames in a recording handed to extract_svo2
MaxIters == 4       \* loop iterations of a pause/step viewer
KelvinMargin == 100 \* kelvin inputs reach this far outside the clamp range [1000, 12000]

-----------------------------------------------------------------------------
(* Python strings *)

LowerLetters == <<"a","b","c","d","e","f","g","h","i","j","k","l","m",
                  "n","o","p","q","r","s","t","u","v","w","x","y","z">>
UpperLetters == <<"A","B","C","D","E","F","G","H","I","J","K","L","M",
                  "N","O","P","Q","R","S","T","U","V","W","X","Y","Z">>

\* str.upper() on one character
UpperChar(c) ==
    IF \E i \in 1..26 : LowerLetters[i] = c
    THEN UpperLetters[CHOOSE i \in 1..26 : LowerLetters[i] = c]
    ELSE c

\* str.upper()
Upper(s) == [i \in 1..Len(s) |-> UpperChar(s[i])]

\* str.replace(old, new) for one-character old and new
Replace(s, old, new) == [i \in 1..Len(s) |-> IF s[i] = old THEN new ELSE s[i]]

\* the string literals of color_correct.py
N_BRIGHTNESS == <<"B","R","I","G","H","T","N","E","S","S">>
N_CONTRAST   == <<"C","O","N","T","R","A","S","T">>
N_HUE        == <<"H","U","E">>
N_SATURATION == <<"S","A","T","U","R","A","T","I","O","N">>
N_SHARPNESS  == <<"S","H","A","R","P","N","E","S","S">>
N_GAIN       == <<"G","A","I","N">>
N_EXPOSURE   == <<"E","X","P","O","S","U","R","E">>
N_WHITEBALANCE_TEMPERATURE ==
    <<"W","H","I","T","E","B","A","L","A","N","C","E","_",
      "T","E","M","P","E","R","A","T","U","R","E">>

D_Brightness   == <<"B","r","i","g","h","t","n","e","s","s">>
D_Contrast     == <<"C","o","n","t","r","a","s","t">>
D_Hue          == <<"H","u","e">>
D_Saturation   == <<"S","a","t","u","r","a","t","i","o","n">>
D_Sharpness    == <<"S","h","a","r","p","n","e","s","s">>
D_Gain         == <<"G","a","i","n">>
D_Exposure     == <<"E","x","p","o","s","u","r","e">>
D_WhiteBalance == <<"W","h","i","t","e"," ","B","a","l","a","n","c","e">>

-----------------------------------------------------------------------------
(* ParameterStore of color_correct.py *)

\* the members of sl.VIDEO_SETTINGS the viewer edits
VIDEO_SETTINGS == {"BRIGHTNESS", "CONTRAST", "HUE", "SATURATION", "SHARPNESS",
                   "GAIN", "EXPOSURE", "WHITEBALANCE_TEMPERATURE"}

\* the initial value of the global dict proc_vals
proc_vals_init ==
    (N_BRIGHTNESS :> 0) @@ (N_CONTRAST :> 0) @@ (N_HUE :> 0) @@ (N_SATURATION :> 0) @@
    (N_SHARPNESS :> 0) @@ (N_GAIN :> 0) @@ (N_EXPOSURE :> 0) @@
    (N_WHITEBALANCE_TEMPERATURE :> 5500)

\* a reset dict that leaves the white balance entry out and zeroes no exposure
reset_vals_partial ==
    (N_BRIGHTNESS :> 0) @@ (N_CONTRAST :> 0) @@ (N_HUE :> 0) @@ (N_SATURATION :> 0) @@
    (N_SHARPNESS :> 0) @@ (N_GAIN :> 0)

\* the dict passed to proc_vals.update() by the 'r' key
reset_vals ==
    (N_BRIGHTNESS :> 0) @@ (N_CONTRAST :> 0) @@ (N_HUE :> 0) @@ (N_SATURATION :> 0) @@
    (N_SHARPNESS :> 0) @@ (N_GAIN :> 0) @@ (N_EXPOSURE :> 0) @@
    (N_WHITEBALANCE_TEMPERATURE :> 5500)

\* dict.update(): keys of d are overwritten or added, the others kept
DictUpdate(base, d) == [k \in DOMAIN base \cup DOMAIN d |-> IF k \in DOMAIN d THEN d[k] ELSE base[k]]

\* the local dict bounds of _inc_proc
bounds ==
    (N_BRIGHTNESS :> <<-100, 100>>) @@ (N_CONTRAST :> <<0, 100>>) @@
    (N_HUE :> <<-90, 90>>) @@ (N_SATURATION :> <<-100, 100>>) @@
    (N_SHARPNESS :> <<0, 60>>) @@ (N_GAIN :> <<0, 100>>) @@
    (N_EXPOSURE :> <<0, 100>>) @@ (N_WHITEBALANCE_TEMPERATURE :> <<2000, 8000>>)

step_camera_settings == 1

\* a clip that forgets the upper end
ClipNoUpper(x, lo, hi) == IF x < lo THEN lo ELSE x

\* np.clip(x, lo, hi) = minimum(maximum(x, lo), hi)
Clip(x, lo, hi) == IF x < lo THEN lo ELSE IF x > hi THEN hi ELSE x

\* a lookup that always lands on the first entry of the store
IncNameFirst(str) == N_BRIGHTNESS

\* the name _inc_proc looks up
IncName(str) == Replace(Upper(str), " ", "_")

\* _inc_proc(delta): the new proc_vals
IncVals(vals, str, delta) ==
    LET name == IncName(str) IN
    IF name \notin DOMAIN vals THEN vals
    ELSE [vals EXCEPT ![name] =
             Clip(vals[name] + delta * step_camera_settings, bounds[name][1], bounds[name][2])]

\* _inc_proc(delta): how the call ends; the early return is a normal return
IncOutcome(vals, str) ==
    IF IncName(str) \notin DOMAIN vals THEN "returned" ELSE "stored"

\* a chain whose EXPOSURE branch wraps around early
SwitchSettingShort(cs) ==
    CASE cs = "BRIGHTNESS" -> "CONTRAST"
      [] cs = "CONTRAST" -> "HUE"
      [] cs = "HUE" -> "SATURATION"
      [] cs = "SATURATION" -> "SHARPNESS"
      [] cs = "SHARPNESS" -> "GAIN"
      [] cs = "GAIN" -> "EXPOSURE"
      [] cs = "EXPOSURE" -> "BRIGHTNESS"
      [] cs = "WHITEBALANCE_TEMPERATURE" -> "BRIGHTNESS"
      [] OTHER -> cs

\* switch_camera_settings(): the if/elif chain on camera_settings
SwitchSetting(cs) ==
    CASE cs = "BRIGHTNESS" -> "CONTRAST"
      [] cs = "CONTRAST" -> "HUE"
      [] cs = "HUE" -> "SATURATION"
      [] cs = "SATURATION" -> "SHARPNESS"
      [] cs = "SHARPNESS" -> "GAIN"
      [] cs = "GAIN" -> "EXPOSURE"
      [] cs = "EXPOSURE" -> "WHITEBALANCE_TEMPERATURE"
      [] cs = "WHITEBALANCE_TEMPERATURE" -> "BRIGHTNESS"
      [] OTHER -> cs

\* switch_camera_settings(): the display string assigned in the same branch
SwitchString(cs, str) ==
    CASE cs = "BRIGHTNESS" -> D_Contrast
      [] cs = "CONTRAST" -> D_Hue
      [] cs = "HUE" -> D_Saturation
      [] cs = "SATURATION" -> D_Sharpness
      [] cs = "SHARPNESS" -> D_Gain
      [] cs = "GAIN" -> D_Exposure
      [] cs = "EXPOSURE" -> D_WhiteBalance
      [] cs = "WHITEBALANCE_TEMPERATURE" -> D_Brightness
      [] OTHER -> str

\* the display string that goes with each member once switch_camera_settings has run
DisplayOf(cs) ==
    CASE cs = "BRIGHTNESS" -> D_Brightness
      [] cs = "CONTRAST" -> D_Contrast
      [] cs = "HUE" -> D_Hue
      [] cs = "SATURATION" -> D_Saturation
      [] cs = "SHARPNESS" -> D_Sharpness
      [] cs = "GAIN" -> D_Gain
      [] cs = "EXPOSURE" -> D_Exposure
      [] cs = "WHITEBALANCE_TEMPERATURE" -> D_WhiteBalance

-----------------------------------------------------------------------------
(* Arithmetic.  TLC integers have 32 bits.  A float64 intermediate is carried *)
(* as a decimal fixed-point number <<a0, a1, a2, a3>> = a0 + a1/10^4 +       *)
(* a2/10^8 + a3/10^12 (non-negative, limbs a1..a3 in 0..9999); a float32     *)
(* value is carried exactly as <<m, e>> = m * 2^e with 2^23 <= m < 2^24, and *)
(* 0.0 as <<0, 0>>.  FP scales the weights of the blur kernel.               *)

FP == 1000000

\* round(n / d) for d > 0, ties to the even neighbour (cvRound, np.rint)
RoundHalfEven(n, d) ==
    LET q == n \div d
        r == n % d
    IN  IF 2 * r < d THEN q
        ELSE IF 2 * r > d THEN q + 1
        ELSE IF q % 2 = 0 THEN q ELSE q + 1

\* the number s0 + s1/10^4 + s2/10^8 + s3/10^12 with its limbs brought into 0..9999
Carry(s0, s1, s2, s3) ==
    LET k2 == s2 + s3 \div 10000
        k1 == s1 + k2 \div 10000
        k0 == s0 + k1 \div 10000
    IN  << k0, k1 % 10000, k2 % 10000, s3 % 10000 >>

BAdd(a, b) == Carry(a[1] + b[1], a[2] + b[2], a[3] + b[3], a[4] + b[4])

\* a - b for a >= b
BSub(a, b) == Carry(a[1] - b[1], a[2] - b[2], a[3] - b[3], a[4] - b[4])

BLess(a, b) ==
    \E i \in 1..4 : a[i] < b[i] /\ \A j \in 1..(i - 1) : a[j] = b[j]

\* a * n for a small integer n >= 0
BMulSmall(a, n) == Carry(a[1] * n, a[2] * n, a[3] * n, a[4] * n)

\* a / n for a small integer n > 0, rounded in the last limb
BDivSmall(a, n) ==
    LET r0 == a[1] % n
        r1 == (r0 * 10000 + a[2]) % n
        r2 == (r1 * 10000 + a[3]) % n
    IN  Carry(a[1] \div n, (r0 * 10000 + a[2]) \div n, (r1 * 10000 + a[3]) \div n,
              (r2 * 10000 + a[4] + n \div 2) \div n)

\* a * b, rounded in the last limb
BMul(a, b) ==
    LET c6 == a[4] * b[4]
        c5 == a[3] * b[4] + a[4] * b[3]
        c4 == a[2] * b[4] + a[3] * b[3] + a[4] * b[2]
        c3 == a[1] * b[4] + a[2] * b[3] + a[3] * b[2] + a[4] * b[1]
        k5 == c5 + c6 \div 10000
        k4 == c4 + k5 \div 10000
    IN  Carry(a[1] * b[1],
              a[1] * b[2] + a[2] * b[1],
              a[1] * b[3] + a[2] * b[2] + a[3] * b[1],
              c3 + (k4 + 5000) \div 10000)

\* the largest n with d * 2^n <= x  (x >= d > 0)
RECURSIVE Halvings(_, _)
Halvings(x, d) == IF 2 * d <= x THEN 1 + Halvings(x, 2 * d) ELSE 0

RECURSIVE Pow2(_)
Pow2(n) == IF n = 0 THEN 1 ELSE 2 * Pow2(n - 1)

\* the number of binary digits of n >= 0
RECURSIVE BitLen(_)
BitLen(n) == IF n = 0 THEN 0 ELSE 1 + BitLen(n \div 2)

\* sum of t/(2j+1), t z2/(2j+3), ... : the series of atanh
RECURSIVE AtanhSeries(_, _, _)
AtanhSeries(t, z2, j) ==
    IF t = <<0, 0, 0, 0>> THEN t
    ELSE BAdd(BDivSmall(t, 2 * j + 1), AtanhSeries(BMul(t, z2), z2, j + 1))

\* np.log(x / d) for integers x >= d > 0:
\* ln(m 2^n) = n ln 2 + 2 atanh((m - 1) / (m + 1))
LnFP(x, d) ==
    LET n == Halvings(x, d)
        e == d * Pow2(n)
        z == BDivSmall(<<x - e, 0, 0, 0>>, x + e)
    IN  BAdd(BMulSmall(<<0, 6931, 4718, 560>>, n),
             BMulSmall(AtanhSeries(z, BMul(z, z), 0), 2))

\* the terms t, t y / n, t y^2 / (n (n + 1)), ... of the series of exp, summed
\* separately over the even and over the odd positions
RECURSIVE ExpSeries(_, _, _)
ExpSeries(t, y, n) ==
    IF t = <<0, 0, 0, 0>> THEN << t, t >>
    ELSE LET rest == ExpSeries(BDivSmall(BMul(t, y), n), y, n + 1)
         IN  << BAdd(t, rest[2]), rest[1] >>

\* exp(-y) for 0 <= y < 1
ExpNegFP(y) ==
    LET sums == ExpSeries(<<1, 0, 0, 0>>, y, 1) IN BSub(sums[1], sums[2])

\* (x / d) ** -p for integers x >= d > 0 and 0 < p < 1
PowNegFP(x, d, p) == ExpNegFP(BMul(p, LnFP(x, d)))

\* float32(a * 2^e) of a fixed-point number 0 <= a < 2^23: a is doubled until its
\* integer part has 24 binary digits, then rounded to nearest, ties to even
RECURSIVE F32Norm(_, _)
F32Norm(a, e) ==
    IF a = <<0, 0, 0, 0>> THEN << 0, 0 >>
    ELSE IF a[1] >= 8388608
    THEN LET up == \/ a[2] > 5000
                   \/ a[2] = 5000 /\ (a[3] > 0 \/ a[4] > 0 \/ a[1] % 2 = 1)
             m  == IF up THEN a[1] + 1 ELSE a[1]
         IN  IF m = 16777216 THEN << 8388608, e + 1 >> ELSE << m, e >>
    ELSE F32Norm(BMulSmall(a, 2), e - 1)

\* n further binary digits of the quotient q + r / d, then rounding to nearest,
\* ties to even
RECURSIVE LDiv(_, _, _, _)
LDiv(q, r, d, n) ==
    IF n = 0
    THEN IF 2 * r > d \/ (2 * r = d /\ q % 2 = 1) THEN q + 1 ELSE q
    ELSE IF 2 * r >= d THEN LDiv(2 * q + 1, 2 * r - d, d, n - 1)
         ELSE LDiv(2 * q, 2 * r, d, n - 1)

\* the float32 quotient x / y of two float32 values, y > 0
F32Div(x, y) ==
    IF x[1] = 0 THEN << 0, 0 >>
    ELSE LET m == IF x[1] >= y[1] THEN LDiv(1, x[1] - y[1], y[1], 23)
                  ELSE LDiv(0, x[1], y[1], 24)
             e == IF x[1] >= y[1] THEN x[2] - y[2] - 23 ELSE x[2] - y[2] - 24
         IN  IF m = 16777216 THEN << 8388608, e + 1 >> ELSE << m, e >>

\* x < y for float32 values x, y >= 0
F32Less(x, y) ==
    IF y[1] = 0 THEN FALSE
    ELSE IF x[1] = 0 THEN TRUE
    ELSE x[2] < y[2] \/ (x[2] = y[2] /\ x[1] < y[1])

\* the float32 product of the pixel value v in 0..255 and the float32 x >= 0, as
\* m * 2^e with m < 2^24 + 1: the exact product v m has up to 32 binary digits and
\* is rounded to 24
F32MulU8(v, x) ==
    IF v = 0 \/ x[1] = 0 THEN << 0, 0 >>
    ELSE LET t  == v * (x[1] % 4096)
             hi == v * (x[1] \div 4096) + t \div 4096
             lo == t % 4096
             d  == IF BitLen(hi) > 12 THEN BitLen(hi) - 12 ELSE 0
         IN  << hi * Pow2(12 - d) + RoundHalfEven(lo, Pow2(d)), x[2] + d >>

\* the float32 nearest to x / y for integers with 1 <= x / y < 4
F32Ratio(x, y) ==
    IF x < 2 * y THEN << RoundHalfEven(x * 8388608, y), -23 >>
    ELSE << RoundHalfEven(x * 4194304, y), -22 >>

\* |p + beta| in float32 for a float32 p = m * 2^e >= 0 with e < 0 and an integer
\* beta: << I, g, k >> stands for I + g / 2^k
F32AddInt(p, beta) ==
    LET t    == -p[2]
        S    == beta + p[1] \div Pow2(t)
        f    == p[1] % Pow2(t)
        I    == IF S >= 0 THEN S ELSE IF f > 0 THEN -S - 1 ELSE -S
        g    == IF S < 0 /\ f > 0 THEN Pow2(t) - f ELSE f
        keep == 24 - BitLen(I)
    IN  IF I = 0 \/ t <= keep THEN << I, g, t >>
        ELSE << I, RoundHalfEven(g, Pow2(t - keep)), keep >>

-----------------------------------------------------------------------------
(* Frames: one row of pixels, each pixel <<b, g, r>> or <<b, g, r, a>> with  *)
(* channels 0..255                                                           *)

\* mat.get_data().copy() / img0.copy()
CopyFrame(f) == [i \in 1..Len(f) |-> f[i]]

\* saturate_cast<uchar>
SatU8(x) == IF x < 0 THEN 0 ELSE IF x > 255 THEN 255 ELSE x

Abs(x) == IF x < 0 THEN -x ELSE x

\* "brightness" handed to the first stage: params["BRIGHTNESS"] + int(params["EXPOSURE"] + 0.6 * params["GAIN"]);
\* int() truncates, and for GAIN in 0..100 the float product truncates to floor(3 GAIN / 5)
extra_beta(P) == P[N_EXPOSURE] + (3 * P[N_GAIN]) \div 5

\* cv2.convertScaleAbs on one 8-bit channel: saturate_cast<uchar>(|v * a + b|),
\* computed in float32 with a = (float)alpha, b = (float)beta, the product rounded
\* before the sum, and cvRound on the result.
\* alpha = 1.0 + 0.02 * max(0, contrast_units): for contrast_units in 0..100 the
\* float32 of that double is the float32 nearest to (50 + c) / 50
ScaleAbs(v, brightness, contrast_units) ==
    LET c   == IF contrast_units > 0 THEN contrast_units ELSE 0
        a   == F32Ratio(50 + c, 50)
        p   == IF v = 0 THEN << 0, -23 >> ELSE F32MulU8(v, a)
        sum == F32AddInt(p, brightness)
    IN  SatU8(RoundHalfEven(sum[1] * Pow2(sum[3]) + sum[2], Pow2(sum[3])))

apply_brightness_contrast(img, brightness, contrast_units) ==
    [i \in 1..Len(img) |->
        [ch \in 1..Len(img[i]) |-> ScaleAbs(img[i][ch], brightness, contrast_units)]]

\* the r, g, b of kelvin_to_rgb before they are stored, each in 0..255
kelvin_curves(kelvin) ==
    LET K == IF kelvin < 1000 THEN 1000 ELSE IF kelvin > 12000 THEN 12000 ELSE kelvin
        top == <<255, 0, 0, 0>>
        clipHi(x) == IF BLess(top, x) THEN top ELSE x
        minus(x, y) == IF BLess(x, y) THEN <<0, 0, 0, 0>> ELSE BSub(x, y)
        r == IF K <= 6600 THEN top
             ELSE clipHi(BMul(<<329, 6987, 2744, 6000>>,
                              PowNegFP(K - 6000, 100, <<0, 1332, 475, 9200>>)))
        g == IF K <= 6600
             THEN clipHi(minus(BMul(<<99, 4708, 258, 6100>>, LnFP(K, 100)),
                               <<161, 1195, 6816, 6100>>))
             ELSE clipHi(BMul(<<288, 1221, 6952, 8300>>,
                              PowNegFP(K - 6000, 100, <<0, 755, 1484, 9200>>)))
        b == IF K >= 6600 THEN top
             ELSE IF K <= 1900 THEN <<0, 0, 0, 0>>
             ELSE clipHi(minus(BMul(<<138, 5177, 3122, 3100>>, LnFP(K - 1000, 100)),
                               <<305, 447, 9273, 700>>))
    IN  << r, g, b >>

\* np.array(c, dtype=np.float32) / 255.0: three float32; 255.0 is 16711680 * 2^-16
F32Array255(c) ==
    << F32Div(F32Norm(c[1], 0), << 16711680, -16 >>),
       F32Div(F32Norm(c[2], 0), << 16711680, -16 >>),
       F32Div(F32Norm(c[3], 0), << 16711680, -16 >>) >>

\* a conversion that returns the triple in the order b, g, r
kelvin_to_bgr(kelvin) ==
    LET c == kelvin_curves(kelvin) IN F32Array255(<< c[3], c[2], c[1] >>)

\* kelvin_to_rgb: <<r, g, b>> as float32
kelvin_to_rgb(kelvin) == F32Array255(kelvin_curves(kelvin))

\* rgb / max(rgb[1], 1e-6); float32(1e-6) is 8796093 * 2^-43
NormalizeToGreen(rgb) ==
    LET m == IF F32Less(rgb[2], << 8796093, -43 >>) THEN << 8796093, -43 >> ELSE rgb[2]
    IN  << F32Div(rgb[1], m), F32Div(rgb[2], m), F32Div(rgb[3], m) >>

\* scale = rgb / max(rgb[1], 1e-6): three float32 <<r, g, b>>
wb_scale(kelvin) == NormalizeToGreen(kelvin_to_rgb(kelvin))

\* out[..., ch] *= scale[i] in float32, then np.clip(out, 0, 255).astype(np.uint8):
\* the cast truncates
WbChannel(v, sc) ==
    LET x == F32MulU8(v, sc)
        n == IF x[1] = 0 THEN 0
             ELSE IF x[2] >= 0 THEN 255
             ELSE IF -x[2] > 30 THEN 0
             ELSE x[1] \div Pow2(-x[2])
    IN  IF n > 255 THEN 255 ELSE n

apply_wb_temperature(img, kelvin) ==
    LET scale == wb_scale(kelvin)
        \* out[..., 2] *= scale[0]; out[..., 1] *= scale[1]; out[..., 0] *= scale[2];
        \* a fourth channel is only converted to float32 and back
        Op(px) == [ch \in 1..Len(px) |->
                     IF ch <= 3 THEN WbChannel(px[ch], scale[4 - ch]) ELSE px[ch]]
    IN  [i \in 1..Len(img) |-> Op(img[i])]

\* cv2.cvtColor(BGR2HSV) on one 8-bit pixel: <<h, s, v>> with h in 0..179
BGR2HSV(px) ==
    LET b == px[1]
        g == px[2]
        r == px[3]
        v == IF b >= g /\ b >= r THEN b ELSE IF g >= r THEN g ELSE r
        vmin == IF b <= g /\ b <= r THEN b ELSE IF g <= r THEN g ELSE r
        diff == v - vmin
        sdiv == IF v = 0 THEN 0 ELSE RoundHalfEven(255 * 4096, v)
        hdiv == IF diff = 0 THEN 0 ELSE RoundHalfEven(180 * 4096, 6 * diff)
        s == (diff * sdiv + 2048) \div 4096
        hn == IF v = r THEN g - b
              ELSE IF v = g THEN b - r + 2 * diff
              ELSE r - g + 4 * diff
        h0 == (hn * hdiv + 2048) \div 4096
        h == IF h0 < 0 THEN h0 + 180 ELSE h0
    IN  << h, s, v >>

\* cv2.cvtColor(HSV2BGR) on one 8-bit pixel
HSV2BGR(hsv) ==
    LET h == hsv[1]
        s == hsv[2]
        v == hsv[3]
        sector == (h \div 30) % 6
        f == h % 30
        tab == << v,
                  RoundHalfEven(v * (255 - s), 255),
                  RoundHalfEven(v * (7650 - s * f), 7650),
                  RoundHalfEven(v * (7650 - s * (30 - f)), 7650) >>
        sector_data == << <<2, 4, 1>>, <<2, 1, 3>>, <<4, 1, 2>>,
                          <<1, 3, 2>>, <<1, 2, 4>>, <<3, 2, 1>> >>
        idx == sector_data[sector + 1]
    IN  IF s = 0 THEN << v, v, v >>
        ELSE << SatU8(tab[idx[1]]), SatU8(tab[idx[2]]), SatU8(tab[idx[3]]) >>

\* a hue shift without the doubling
HueShiftDegPlain(hue_units) == hue_units

\* hue_shift_deg = int(hue_units * 2), hue_units an integer
HueShiftDeg(hue_units) == hue_units * 2

\* a hue update with the remainder of C-style division, which keeps the sign of the sum
NewHueRem(h, hue_units) ==
    LET t == h + HueShiftDeg(hue_units) \div 2 IN
    IF t < 0 THEN -((-t) % 180) ELSE t % 180

\* h = (h + hue_shift_deg // 2) % 180: // and % round toward minus infinity
NewHue(h, hue_units) == (h + HueShiftDeg(hue_units) \div 2) % 180

apply_hue_saturation(img, hue_units, sat_units) ==
    LET Op(px) ==
            LET hsv == BGR2HSV(px)
                h == NewHue(hsv[1], hue_units)
                s == IF hsv[2] + sat_units < 0 THEN 0
                     ELSE IF hsv[2] + sat_units > 255 THEN 255
                     ELSE hsv[2] + sat_units
            IN  HSV2BGR(<< h, s, hsv[3] >>)
    IN  [i \in 1..Len(img) |-> Op(img[i])]

\* Gaussian kernel of cv2.GaussianBlur(img, (0, 0), 1.2): 9 taps,
\* exp(-x^2 / (2 * 1.2^2)) normalised, scaled by FP
GaussKernel == << 1285, 14609, 82907, 234954, 332490, 234954, 82907, 14609, 1285 >>

\* BORDER_REFLECT_101 on indices 1..n
RECURSIVE Reflect101(_, _)
Reflect101(i, n) ==
    IF n = 1 THEN 1
    ELSE IF i < 1 THEN Reflect101(2 - i, n)
    ELSE IF i > n THEN Reflect101(2 * n - i, n)
    ELSE i

RECURSIVE BlurSum(_, _, _, _)
BlurSum(img, i, ch, t) ==
    IF t > 9 THEN 0
    ELSE GaussKernel[t] * img[Reflect101(i + t - 5, Len(img))][ch] + BlurSum(img, i, ch, t + 1)

GaussianBlur(img) ==
    [i \in 1..Len(img) |-> [ch \in 1..3 |-> SatU8(RoundHalfEven(BlurSum(img, i, ch, 1), FP))]]

\* cv2.addWeighted(img, 1 + amount, blur, -amount, 0) with amount = units / 20
Unsharp(img, units) ==
    LET blur == GaussianBlur(img) IN
    [i \in 1..Len(img) |-> [ch \in 1..3 |->
        SatU8(RoundHalfEven(img[i][ch] * (20 + units) - blur[i][ch] * units, 20))]]

\* a sharpness stage that takes the magnitude of sharp_units
apply_sharpness_abs(img, sharp_units) ==
    IF Abs(sharp_units) = 0 THEN img ELSE Unsharp(img, Abs(sharp_units))

\* apply_sharpness: amount = 0.05 * max(0, sharp_units); amount <= 1e-6 returns img
apply_sharpness(img, sharp_units) ==
    LET u == IF sharp_units > 0 THEN sharp_units ELSE 0 IN
    IF u = 0 THEN img ELSE Unsharp(img, u)

\* render(img0, params) and apply_svo_pipeline(img) as one function
render(img0, P) ==
    LET i1 == apply_brightness_contrast(CopyFrame(img0), P[N_BRIGHTNESS] + extra_beta(P), P[N_CONTRAST])
        i2 == apply_wb_temperature(i1, P[N_WHITEBALANCE_TEMPERATURE])
        i3 == apply_hue_saturation(i2, P[N_HUE], P[N_SATURATION])
    IN  apply_sharpness(i3, P[N_SHARPNESS])

-----------------------------------------------------------------------------
(* The device behind cam.get_camera_settings / cam.set_camera_settings *)

DeviceRegs == VIDEO_SETTINGS \cup {"LED_STATUS"}

\* register values a freshly opened live camera may report (-1 = auto)
DevInitVals == {-1, 0, 2}

\* cam.set_camera_settings(setting, value): the register takes the value
DevSet(regs, setting, value) == [regs EXCEPT ![setting] = value]

\* the eight cam.set_camera_settings(..., -1) calls of the live 'r' branch, in order
ResetCalls ==
    << <<"set_camera_settings", "BRIGHTNESS", -1>>,
       <<"set_camera_settings", "CONTRAST", -1>>,
       <<"set_camera_settings", "HUE", -1>>,
       <<"set_camera_settings", "SATURATION", -1>>,
       <<"set_camera_settings", "SHARPNESS", -1>>,
       <<"set_camera_settings", "GAIN", -1>>,
       <<"set_camera_settings", "EXPOSURE", -1>>,
       <<"set_camera_settings", "WHITEBALANCE_TEMPERATURE", -1>> >>

-----------------------------------------------------------------------------
(* Initial states *)

\* a register value i steps inside the range of name, from the low end (i >= 0)
\* or from the high end (i < 0)
Level(name, i) == IF i >= 0 THEN bounds[name][1] + i ELSE bounds[name][2] + i + 1

\* proc_vals of a playback session in progress: every register the '+'/'-' keys
\* reach stands at, or one step from, an end of its range
SessionVals ==
    { [n \in DOMAIN proc_vals_init |->
          IF n = N_WHITEBALANCE_TEMPERATURE THEN proc_vals_init[n] ELSE Level(n, i)]
      : i \in {0, 1, -1, -2} } \cup {proc_vals_init}

\* no frame: the value of a frame variable before its first assignment
NoFrame == <<>>

\* trackbar positions set by tb_init_defaults(defaults) in main() of single_frame.py
tb_defaults ==
    ("Brightness" :> 0 + 100) @@ ("Contrast" :> 0) @@ ("Hue" :> 0 + 90) @@
    ("Saturation" :> 0 + 100) @@ ("Sharpness" :> 0) @@ ("Gain" :> 0) @@
    ("Exposure" :> 0) @@ ("WB_K" :> 5500 - 2000)

\* the frame part of the loop is left out: the store commands do not read frames
RenderElided ==
    /\ prog = "color_correct"
    /\ rpc = "elided"
    /\ src_frame = NoFrame
    /\ work_img = NoFrame
    /\ params = proc_vals_init
    /\ tb = tb_defaults
    /\ chain = <<>>
    /\ vis = NoFrame
    /\ rendered = <<>>
    /\ nrender = 0

\* single_frame.py: no key read yet, nothing printed, no zed_settings.json
ExportIdle ==
    /\ sf_k = -1
    /\ printed = <<>>
    /\ settings_file = <<>>
    /\ preview_file = <<>>

\* max_frames = None
None == -1

\* extract.py: extract_svo2 has not been called
ExtractIdle ==
    /\ ex_pc = "idle"
    /\ total = 0
    /\ max_frames = None
    /\ limit = 0
    /\ frame_idx = 0
    /\ svo_pos = 0
    /\ images = <<>>
    /\ depths = <<>>
    /\ pose_rows = <<>>
    /\ grab_failed = FALSE

\* camera_control.py, camera_settings.py: not running
ViewerIdle ==
    /\ vw_prog = "none"
    /\ vw_pc = "idle"
    /\ paused = FALSE
    /\ vw_key = -1
    /\ vw_iters = 0
    /\ vw_log = <<>>

\* no render has been called
HeapIdle ==
    /\ heap = <<>>
    /\ arg_ref = 0
    /\ img_ref = 0
    /\ call_params = <<>>

OthersIdle == ExportIdle /\ ExtractIdle /\ ViewerIdle /\ HeapIdle

StageCallsIdle ==
    /\ st_fn = "none"
    /\ st_in = NoFrame
    /\ st_args = <<>>
    /\ st_out = NoFrame

StagesIdle == StageCallsIdle /\ OthersIdle

\* the rest of the state when a loop is entered at its top
StoreRest ==
    /\ led_on = TRUE
    /\ cam_vals = [r \in DeviceRegs |-> IF r = "LED_STATUS" THEN 1 ELSE -1]
    /\ cam_calls = <<>>
    /\ last_key = 0
    /\ inc_outcome = "none"
    /\ prev_vals = proc_vals
    /\ prev_setting = camera_settings
    /\ ncmd = 0
    /\ s_run = <<camera_settings>>
    /\ rpc = "grab"
    /\ work_img = NoFrame
    /\ params = proc_vals_init
    /\ chain = <<>>
    /\ vis = NoFrame
    /\ rendered = <<>>
    /\ nrender = 0
    /\ StagesIdle

\* module load: the globals as assigned at import
InitStart ==
    /\ mainpc = "start"
    /\ is_playback = FALSE
    /\ camera_settings = "BRIGHTNESS"
    /\ str_camera_settings = N_BRIGHTNESS
    /\ proc_vals = proc_vals_init
    /\ led_on = TRUE
    /\ \E d \in DevInitVals : cam_vals = [r \in DeviceRegs |-> IF r = "LED_STATUS" THEN 1 ELSE d]
    /\ cam_calls = <<>>
    /\ last_key = 0
    /\ inc_outcome = "none"
    /\ prev_vals = proc_vals_init
    /\ prev_setting = "BRIGHTNESS"
    /\ ncmd = 0
    /\ s_run = <<"BRIGHTNESS">>
    /\ RenderElided
    /\ StagesIdle

\* a session in progress: main() is in its loop, some setting is selected
InitSession ==
    /\ mainpc = "loop"
    /\ is_playback \in BOOLEAN
    /\ camera_settings \in VIDEO_SETTINGS
    /\ str_camera_settings = DisplayOf(camera_settings)
    /\ proc_vals \in (IF is_playback THEN SessionVals ELSE {proc_vals_init})
    /\ led_on = TRUE
    /\ \E d \in DevInitVals : cam_vals = [r \in DeviceRegs |-> IF r = "LED_STATUS" THEN 1 ELSE d]
    /\ cam_calls = <<>>
    /\ last_key = 0
    /\ inc_outcome = "none"
    /\ prev_vals = proc_vals
    /\ prev_setting = camera_settings
    /\ ncmd = 0
    /\ s_run = <<camera_settings>>
    /\ RenderElided
    /\ StagesIdle

Init == InitStart \/ InitSession

-----------------------------------------------------------------------------
(* main() and update_camera_settings(key, ...) of color_correct.py *)

\* main() up to its loop: argv decides playback, the camera opens or the program
\* exits, switch_camera_settings() runs once
Startup ==
    /\ mainpc = "start"
    /\ \E svo \in BOOLEAN, opened \in BOOLEAN :
         /\ is_playback' = svo
         /\ IF opened
            THEN /\ mainpc' = "loop"
                 /\ camera_settings' = SwitchSetting(camera_settings)
                 /\ str_camera_settings' = SwitchString(camera_settings, str_camera_settings)
            ELSE /\ mainpc' = "exit"
                 /\ UNCHANGED <<camera_settings, str_camera_settings>>
    /\ s_run' = <<camera_settings'>>
    /\ prev_setting' = camera_settings'
    /\ UNCHANGED <<proc_vals, led_on, cam_vals, cam_calls, last_key, inc_outcome,
                   prev_vals, ncmd>>
    /\ UNCHANGED <<renderVars, stageVars, otherVars>>

\* bookkeeping common to every handled key
Handled(key) ==
    /\ mainpc = "loop"
    /\ prog = "color_correct"
    /\ rpc \in {"key", "elided"}
    /\ rpc' = IF rpc = "key" THEN "grab" ELSE rpc
    /\ nrender' = IF rpc = "key" THEN nrender + 1 ELSE nrender
    /\ UNCHANGED <<prog, src_frame, work_img, params, tb, chain, vis, rendered>>
    /\ UNCHANGED <<stageVars, otherVars>>
    /\ last_key' = key
    /\ ncmd' = ncmd + 1
    /\ prev_vals' = proc_vals
    /\ prev_setting' = camera_settings
    /\ mainpc' = mainpc
    /\ is_playback' = is_playback

\* key 115 's'
PressS ==
    /\ Handled(115)
    /\ camera_settings' = SwitchSetting(camera_settings)
    /\ str_camera_settings' = SwitchString(camera_settings, str_camera_settings)
    /\ s_run' = Append(s_run, camera_settings')
    /\ cam_calls' = <<>>
    /\ inc_outcome' = "none"
    /\ UNCHANGED <<proc_vals, led_on, cam_vals>>

\* key 43 '+'
PressPlus ==
    /\ Handled(43)
    /\ IF is_playback
       THEN /\ proc_vals' = IncVals(proc_vals, str_camera_settings, 1)
            /\ inc_outcome' = IncOutcome(proc_vals, str_camera_settings)
            /\ cam_calls' = <<>>
            /\ UNCHANGED cam_vals
       ELSE LET current_value == cam_vals[camera_settings]
                new_value == IF current_value < 0 THEN 0
                             ELSE current_value + step_camera_settings
            IN /\ cam_vals' = DevSet(cam_vals, camera_settings, new_value)
               /\ cam_calls' = << <<"set_camera_settings", camera_settings, new_value>> >>
               /\ inc_outcome' = "none"
               /\ UNCHANGED proc_vals
    /\ s_run' = <<camera_settings>>
    /\ UNCHANGED <<camera_settings, str_camera_settings, led_on>>

\* key 45 '-'
PressMinus ==
    /\ Handled(45)
    /\ IF is_playback
       THEN /\ proc_vals' = IncVals(proc_vals, str_camera_settings, -1)
            /\ inc_outcome' = IncOutcome(proc_vals, str_camera_settings)
            /\ cam_calls' = <<>>
            /\ UNCHANGED cam_vals
       ELSE LET current_value == cam_vals[camera_settings]
                new_value == IF current_value <= 0 THEN -1
                             ELSE current_value - step_camera_settings
            IN /\ cam_vals' = DevSet(cam_vals, camera_settings, new_value)
               /\ cam_calls' = << <<"set_camera_settings", camera_settings, new_value>> >>
               /\ inc_outcome' = "none"
               /\ UNCHANGED proc_vals
    /\ s_run' = <<camera_settings>>
    /\ UNCHANGED <<camera_settings, str_camera_settings, led_on>>

\* key 114 'r'
PressR ==
    /\ Handled(114)
    /\ IF is_playback
       THEN /\ proc_vals' = DictUpdate(proc_vals, reset_vals)
            /\ cam_calls' = <<>>
            /\ UNCHANGED cam_vals
       ELSE /\ cam_vals' = [r \in DeviceRegs |-> IF r \in VIDEO_SETTINGS THEN -1 ELSE cam_vals[r]]
            /\ cam_calls' = ResetCalls
            /\ UNCHANGED proc_vals
    /\ inc_outcome' = "none"
    /\ s_run' = <<camera_settings>>
    /\ UNCHANGED <<camera_settings, str_camera_settings, led_on>>

\* an 'l' branch that sends the LED state to the device in playback too
LedCallsAlways(playback, on) ==
    << <<"set_camera_settings", "LED_STATUS", IF on THEN 1 ELSE 0>> >>

\* the device calls of the 'l' branch:
\* "if not is_playback: cam.set_camera_settings(LED_STATUS, led_on)"
LedCalls(playback, on) ==
    IF playback THEN <<>>
    ELSE << <<"set_camera_settings", "LED_STATUS", IF on THEN 1 ELSE 0>> >>

\* key 108 'l'
PressL ==
    /\ Handled(108)
    /\ led_on' = ~led_on
    /\ cam_calls' = LedCalls(is_playback, led_on')
    /\ IF cam_calls' = <<>>
       THEN UNCHANGED cam_vals
       ELSE cam_vals' = DevSet(cam_vals, "LED_STATUS", cam_calls'[1][3])
    /\ inc_outcome' = "none"
    /\ s_run' = <<camera_settings>>
    /\ UNCHANGED <<camera_settings, str_camera_settings, proc_vals>>

\* key 97 'a': the ROI is printed and, on a live camera, sent to the device
PressA ==
    /\ Handled(97)
    /\ cam_calls' = IF is_playback THEN <<>>
                    ELSE << <<"set_camera_settings_roi", "AEC_AGC_ROI", 0>> >>
    /\ inc_outcome' = "none"
    /\ s_run' = <<camera_settings>>
    /\ UNCHANGED <<camera_settings, str_camera_settings, proc_vals, led_on, cam_vals>>

\* key 102 'f': no branch of the if/elif chain tests for it (the inner else of
\* the 'a' branch is never entered)
PressF ==
    /\ Handled(102)
    /\ cam_calls' = <<>>
    /\ inc_outcome' = "none"
    /\ s_run' = <<camera_settings>>
    /\ UNCHANGED <<camera_settings, str_camera_settings, proc_vals, led_on, cam_vals>>

KeyS     == ncmd < MaxCmds /\ PressS
KeyPlus  == ncmd < MaxCmds /\ PressPlus
KeyMinus == ncmd < MaxCmds /\ PressMinus
KeyR     == ncmd < MaxCmds /\ PressR
KeyL     == ncmd < MaxCmds /\ PressL
KeyA     == ncmd < MaxCmds /\ PressA
KeyF     == ncmd < MaxCmds /\ PressF

Next == Startup \/ KeyS \/ KeyPlus \/ KeyMinus \/ KeyR \/ KeyL \/ KeyA \/ KeyF

Spec == Init /\ [][Next]_vars

-----------------------------------------------------------------------------
(* '+' held with BRIGHTNESS selected, from the defaults *)

InitBright ==
    /\ InitSession
    /\ is_playback
    /\ camera_settings = "BRIGHTNESS"
    /\ proc_vals = proc_vals_init
    /\ cam_vals["BRIGHTNESS"] = -1

HoldPlus == ncmd < MaxPresses /\ PressPlus

NextBright == HoldPlus

SpecBright == InitBright /\ [][NextBright]_vars

-----------------------------------------------------------------------------
(* 's' pressed repeatedly *)

InitCycle ==
    /\ InitSession
    /\ proc_vals = proc_vals_init

RepeatS == ncmd < MaxCycle /\ PressS

NextCycle == RepeatS

SpecCycle == InitCycle /\ [][NextCycle]_vars

-----------------------------------------------------------------------------
(* The frame part of the loops: apply_svo_pipeline (color_correct.py) and    *)
(* render (single_frame.py), one step per statement                          *)

\* pixel values of the frames delivered by the frame source
FramePixels == { <<128, 128, 128>>, <<10, 200, 90>> }

Frames == [1..FrameW -> FramePixels]

\* pixels of cam.retrieve_image(mat, sl.VIEW.LEFT); mat.get_data(): four channels, B G R A
SvoPixels == { <<128, 128, 128, 255>>, <<10, 200, 90, 255>> }

\* frames the camera or the SVO delivers to color_correct.py
GrabFrames == { f \in [1..FrameW -> SvoPixels] : f[1] = <<128, 128, 128, 255>> }

\* tb_get_params(): trackbar positions to SDK-like values
tb_get_params(pos) ==
    (N_BRIGHTNESS :> pos["Brightness"] - 100) @@ (N_CONTRAST :> pos["Contrast"]) @@
    (N_HUE :> pos["Hue"] - 90) @@ (N_SATURATION :> pos["Saturation"] - 100) @@
    (N_SHARPNESS :> pos["Sharpness"]) @@ (N_GAIN :> pos["Gain"]) @@
    (N_EXPOSURE :> pos["Exposure"]) @@ (N_WHITEBALANCE_TEMPERATURE :> 2000 + pos["WB_K"])

\* trackbar positions the user leaves the sliders at
TbChoices ==
    { tb_defaults,
      [tb_defaults EXCEPT !["WB_K"] = 4600],
      [tb_defaults EXCEPT !["Sharpness"] = 20, !["Hue"] = 45],
      ("Brightness" :> 80) @@ ("Contrast" :> 30) @@ ("Hue" :> 135) @@
      ("Saturation" :> 140) @@ ("Sharpness" :> 20) @@ ("Gain" :> 10) @@
      ("Exposure" :> 5) @@ ("WB_K" :> 1000) }

\* proc_vals of a playback session in which every stage has work to do
GradedVals ==
    (N_BRIGHTNESS :> -20) @@ (N_CONTRAST :> 30) @@ (N_HUE :> 45) @@ (N_SATURATION :> 40) @@
    (N_SHARPNESS :> 20) @@ (N_GAIN :> 10) @@ (N_EXPOSURE :> 5) @@
    (N_WHITEBALANCE_TEMPERATURE :> 5500)

\* the parameters the stages of the running program read
StageParams == IF prog = "single_frame" THEN params ELSE proc_vals

\* a stage order with white balance and hue/saturation exchanged
StageAfterSwapped(pc) ==
    CASE pc = "bc" -> "hs"
      [] pc = "hs" -> "wb"
      [] pc = "wb" -> "sh"
      [] pc = "sh" -> "ret"

\* the statement that follows each stage call in render / apply_svo_pipeline
StageAfter(pc) ==
    CASE pc = "bc" -> "wb"
      [] pc = "wb" -> "hs"
      [] pc = "hs" -> "sh"
      [] pc = "sh" -> "ret"

\* a copy that hands back the buffer shown last
FrameCopyStale(f) == IF vis = NoFrame THEN CopyFrame(f) ELSE vis

\* frame.copy() / img0.copy() at the head of the pipeline
FrameCopy(f) == CopyFrame(f)

InitRender ==
    \/ /\ mainpc = "loop"
       /\ is_playback \in BOOLEAN
       /\ camera_settings \in {"CONTRAST", "SHARPNESS"}
       /\ str_camera_settings = DisplayOf(camera_settings)
       /\ proc_vals \in (IF is_playback THEN {proc_vals_init, GradedVals} ELSE {proc_vals_init})
       /\ prog = "color_correct"
       /\ src_frame = NoFrame
       /\ tb = tb_defaults
       /\ StoreRest
    \/ /\ mainpc = "loop"
       /\ is_playback = FALSE
       /\ camera_settings = "BRIGHTNESS"
       /\ str_camera_settings = N_BRIGHTNESS
       /\ proc_vals = proc_vals_init
       /\ prog = "single_frame"
       /\ src_frame \in Frames
       /\ tb = tb_defaults
       /\ StoreRest

\* color_correct.py, playback: a frame is grabbed and apply_svo_pipeline(frame.copy()) starts
GrabPlayback ==
    /\ mainpc = "loop" /\ prog = "color_correct" /\ rpc = "grab"
    /\ is_playback
    /\ nrender < MaxRenders
    /\ \E f \in GrabFrames :
         /\ src_frame' = f
         /\ work_img' = FrameCopy(f)
    /\ chain' = << <<"copy", work_img'>> >>
    /\ heap' = << src_frame', work_img' >>
    /\ arg_ref' = 2
    /\ img_ref' = 2
    /\ call_params' = proc_vals
    /\ rpc' = "bc"
    /\ UNCHANGED <<prog, params, tb, vis, rendered, nrender>>
    /\ UNCHANGED <<storeVars, stageVars, exportVars, extractVars, viewerVars>>

\* color_correct.py, live camera: disp = frame
GrabLive ==
    /\ mainpc = "loop" /\ prog = "color_correct" /\ rpc = "grab"
    /\ ~is_playback
    /\ nrender < MaxRenders
    /\ \E f \in GrabFrames :
         /\ src_frame' = f
         /\ vis' = f
    /\ rpc' = "key"
    /\ UNCHANGED <<prog, work_img, params, tb, chain, rendered, nrender>>
    /\ UNCHANGED <<storeVars, stageVars, otherVars>>

\* color_correct.py: cam.grab reports the end of the SVO or an error; the loop is left
GrabEnd ==
    /\ mainpc = "loop" /\ prog = "color_correct" /\ rpc = "grab"
    /\ mainpc' = "exit"
    /\ UNCHANGED <<is_playback, camera_settings, str_camera_settings, proc_vals, led_on,
                   cam_vals, cam_calls, last_key, inc_outcome, prev_vals, prev_setting,
                   ncmd, s_run>>
    /\ UNCHANGED <<renderVars, stageVars, otherVars>>

\* single_frame.py: params = tb_get_params(); render(img0, params) starts with img0.copy()
SfRenderCall ==
    /\ mainpc = "loop" /\ prog = "single_frame" /\ rpc = "grab"
    /\ nrender < MaxRenders
    /\ params' = tb_get_params(tb)
    /\ work_img' = FrameCopy(src_frame)
    /\ chain' = << <<"copy", work_img'>> >>
    /\ heap' = << src_frame, work_img' >>
    /\ arg_ref' = 1
    /\ img_ref' = 2
    /\ call_params' = params'
    /\ rpc' = "bc"
    /\ UNCHANGED <<prog, src_frame, tb, vis, rendered, nrender>>
    /\ UNCHANGED <<storeVars, stageVars, exportVars, extractVars, viewerVars>>

\* a convertScaleAbs that writes its result into the array it was given
ConvertScaleDestInPlace(ref, n) == ref

\* cv2.convertScaleAbs(img, alpha=..., beta=...) called without dst: the result is
\* a new array, object n + 1 when n objects exist
ConvertScaleDest(ref, n) == n + 1

\* the object a stage returns, given the object ref it received and n objects alive:
\* astype / np.clip, cvtColor and addWeighted give new arrays; the sharpness stage
\* returns the object it received when amount <= 1e-6
StageDest(pc, ref, n, sharp_units) ==
    CASE pc = "bc" -> ConvertScaleDest(ref, n)
      [] pc = "wb" -> n + 1
      [] pc = "hs" -> n + 1
      [] pc = "sh" -> IF sharp_units > 0 THEN n + 1 ELSE ref

\* the heap after pixel content out was stored as object r
HeapPut(hp, r, out) == IF r > Len(hp) THEN Append(hp, out) ELSE [hp EXCEPT ![r] = out]

\* bookkeeping common to the four stage statements
StageStep(pc, out) ==
    /\ mainpc = "loop" /\ rpc = pc
    /\ work_img' = out
    /\ chain' = Append(chain, <<pc, out>>)
    /\ img_ref' = StageDest(pc, img_ref, Len(heap), StageParams[N_SHARPNESS])
    /\ heap' = HeapPut(heap, img_ref', out)
    /\ rpc' = StageAfter(pc)
    /\ UNCHANGED <<prog, src_frame, params, tb, vis, rendered, nrender>>
    /\ UNCHANGED <<arg_ref, call_params>>
    /\ UNCHANGED <<storeVars, stageVars, exportVars, extractVars, viewerVars>>

StageBC ==
    StageStep("bc", apply_brightness_contrast(heap[img_ref],
                        StageParams[N_BRIGHTNESS] + extra_beta(StageParams),
                        StageParams[N_CONTRAST]))

StageWB ==
    StageStep("wb", apply_wb_temperature(heap[img_ref], StageParams[N_WHITEBALANCE_TEMPERATURE]))

StageHS ==
    StageStep("hs", apply_hue_saturation(heap[img_ref], StageParams[N_HUE], StageParams[N_SATURATION]))

StageSH ==
    StageStep("sh", apply_sharpness(heap[img_ref], StageParams[N_SHARPNESS]))

\* return img; the caller shows it
RenderReturn ==
    /\ mainpc = "loop" /\ rpc = "ret"
    /\ vis' = work_img
    /\ rendered' = Append(rendered, <<src_frame, StageParams, work_img>>)
    /\ rpc' = "key"
    /\ UNCHANGED <<prog, src_frame, work_img, params, tb, chain, nrender>>
    /\ UNCHANGED <<storeVars, stageVars, otherVars>>

\* color_correct.py: waitKey returns no key (255); update_camera_settings matches no branch
NoKey ==
    /\ mainpc = "loop" /\ prog = "color_correct" /\ rpc = "key"
    /\ rpc' = "grab"
    /\ nrender' = nrender + 1
    /\ UNCHANGED <<prog, src_frame, work_img, params, tb, chain, vis, rendered>>
    /\ UNCHANGED <<storeVars, stageVars, otherVars>>

\* single_frame.py: the user drags sliders while waitKey runs the GUI
MoveTrackbar ==
    /\ mainpc = "loop" /\ prog = "single_frame" /\ rpc = "key"
    /\ \E pos \in TbChoices : pos # tb /\ tb' = pos
    /\ UNCHANGED <<prog, rpc, src_frame, work_img, params, chain, vis, rendered, nrender>>
    /\ UNCHANGED <<storeVars, stageVars, otherVars>>

\* single_frame.py: waitKey(20) & 0xFF gives 255 (no key was pressed) or a key
\* that no branch of the loop names; the loop goes on
SfWaitKey ==
    /\ mainpc = "loop" /\ prog = "single_frame" /\ rpc = "key"
    /\ sf_k' \in {255, 120}
    /\ rpc' = "grab"
    /\ nrender' = nrender + 1
    /\ UNCHANGED <<prog, src_frame, work_img, params, tb, chain, vis, rendered>>
    /\ UNCHANGED <<printed, settings_file, preview_file>>
    /\ UNCHANGED <<storeVars, stageVars, extractVars, viewerVars, heapVars>>

\* single_frame.py: ESC or 'q' - break, then cv2.destroyAllWindows()
SfKeyQuit ==
    /\ mainpc = "loop" /\ prog = "single_frame" /\ rpc = "key"
    /\ sf_k' \in {27, 113}
    /\ mainpc' = "exit"
    /\ UNCHANGED <<is_playback, camera_settings, str_camera_settings, proc_vals, led_on,
                   cam_vals, cam_calls, last_key, inc_outcome, prev_vals, prev_setting,
                   ncmd, s_run>>
    /\ UNCHANGED <<printed, settings_file, preview_file>>
    /\ UNCHANGED <<renderVars, stageVars, extractVars, viewerVars, heapVars>>

\* single_frame.py: 's' - cv2.imwrite("preview.png", vis)
SfKeyS ==
    /\ mainpc = "loop" /\ prog = "single_frame" /\ rpc = "key"
    /\ sf_k' = 115
    /\ preview_file' = vis
    /\ rpc' = "grab"
    /\ nrender' = nrender + 1
    /\ UNCHANGED <<prog, src_frame, work_img, params, tb, chain, vis, rendered>>
    /\ UNCHANGED <<printed, settings_file>>
    /\ UNCHANGED <<storeVars, stageVars, extractVars, viewerVars, heapVars>>

\* key order of the dict built by tb_get_params(); a dict keeps insertion order
ParamsKeys ==
    << N_BRIGHTNESS, N_CONTRAST, N_HUE, N_SATURATION, N_SHARPNESS, N_GAIN, N_EXPOSURE,
       N_WHITEBALANCE_TEMPERATURE >>

\* json.dumps(params, indent=2): the members in the order the dict iterates, key then value
json_dumps(P) == [i \in 1..Len(ParamsKeys) |-> << ParamsKeys[i], P[ParamsKeys[i]] >>]

\* single_frame.py: 'p' - print_sdk_snippet(params): the eight SDK lines, then the JSON
SfKeyP ==
    /\ mainpc = "loop" /\ prog = "single_frame" /\ rpc = "key"
    /\ sf_k' = 112
    /\ printed' = << [i \in 1..Len(ParamsKeys) |-> << ParamsKeys[i], params[ParamsKeys[i]] >>],
                     json_dumps(params) >>
    /\ rpc' = "grab"
    /\ nrender' = nrender + 1
    /\ UNCHANGED <<prog, src_frame, work_img, params, tb, chain, vis, rendered>>
    /\ UNCHANGED <<settings_file, preview_file>>
    /\ UNCHANGED <<storeVars, stageVars, extractVars, viewerVars, heapVars>>

\* single_frame.py: 'w' - zed_settings.json is written
SfKeyW ==
    /\ mainpc = "loop" /\ prog = "single_frame" /\ rpc = "key"
    /\ sf_k' = 119
    /\ settings_file' = << <<"sdk_version", "preview">>, <<"settings", json_dumps(params)>> >>
    /\ rpc' = "grab"
    /\ nrender' = nrender + 1
    /\ UNCHANGED <<prog, src_frame, work_img, params, tb, chain, vis, rendered>>
    /\ UNCHANGED <<printed, preview_file>>
    /\ UNCHANGED <<storeVars, stageVars, extractVars, viewerVars, heapVars>>

NextRender ==
    \/ GrabPlayback \/ GrabLive \/ GrabEnd \/ SfRenderCall
    \/ StageBC \/ StageWB \/ StageHS \/ StageSH \/ RenderReturn
    \/ NoKey \/ KeyPlus \/ KeyR \/ KeyS
    \/ MoveTrackbar \/ SfWaitKey \/ SfKeyS \/ SfKeyQuit

SpecRender == InitRender /\ [][NextRender]_vars

-----------------------------------------------------------------------------
(* single_frame.py started on an image file or on a recording *)

\* img0 in main(): cv2.imread(..., IMREAD_COLOR) gives three channels, the recording four
LoadedFrames == Frames \cup [1..FrameW -> SvoPixels]

InitShape ==
    /\ mainpc = "loop"
    /\ is_playback = FALSE
    /\ camera_settings = "BRIGHTNESS"
    /\ str_camera_settings = N_BRIGHTNESS
    /\ proc_vals = proc_vals_init
    /\ prog = "single_frame"
    /\ src_frame \in LoadedFrames
    /\ tb = tb_defaults
    /\ StoreRest

NextShape ==
    \/ SfRenderCall
    \/ StageBC \/ StageWB \/ StageHS \/ StageSH \/ RenderReturn
    \/ MoveTrackbar \/ SfWaitKey \/ SfKeyP \/ SfKeyW \/ SfKeyS \/ SfKeyQuit

SpecShape == InitShape /\ [][NextShape]_vars

-----------------------------------------------------------------------------
(* The stage functions on their own *)

BrightnessArgs == {-120, -50, 0, 37, 160}
ContrastArgs   == {0, 25, 100}
KelvinArgs     == {500, 2000, 5500, 6600, 8000, 12000}
HueArgs        == {-90, -45, -1, 0, 1, 45, 90}
SaturationArgs == {-100, 0, 30, 100}
SharpnessArgs  == {-60, -5, -1, 0, 1, 20, 60}

InitStages ==
    /\ InitStart
    /\ cam_vals["BRIGHTNESS"] = -1

ApplyBC ==
    \E f \in Frames, b \in BrightnessArgs, c \in ContrastArgs :
        /\ st_fn' = "apply_brightness_contrast"
        /\ st_in' = f
        /\ st_args' = <<b, c>>
        /\ st_out' = apply_brightness_contrast(f, b, c)
        /\ UNCHANGED <<storeVars, renderVars, otherVars>>

ApplyWB ==
    \E f \in Frames, k \in KelvinArgs :
        /\ st_fn' = "apply_wb_temperature"
        /\ st_in' = f
        /\ st_args' = <<k>>
        /\ st_out' = apply_wb_temperature(f, k)
        /\ UNCHANGED <<storeVars, renderVars, otherVars>>

ApplyHS ==
    \E f \in Frames, h \in HueArgs, sat \in SaturationArgs :
        /\ st_fn' = "apply_hue_saturation"
        /\ st_in' = f
        /\ st_args' = <<h, sat>>
        /\ st_out' = apply_hue_saturation(f, h, sat)
        /\ UNCHANGED <<storeVars, renderVars, otherVars>>

ApplySH ==
    \E f \in Frames, u \in SharpnessArgs :
        /\ st_fn' = "apply_sharpness"
        /\ st_in' = f
        /\ st_args' = <<u>>
        /\ st_out' = apply_sharpness(f, u)
        /\ UNCHANGED <<storeVars, renderVars, otherVars>>

NextStages == ApplyBC \/ ApplyWB \/ ApplyHS \/ ApplySH

SpecStages == InitStages /\ [][NextStages]_vars

-----------------------------------------------------------------------------
(* kelvin_to_rgb on pairs of temperatures *)

\* temperatures at which the branches of kelvin_to_rgb change, and a coarse grid
KelvinGrid ==
    {1000 - KelvinMargin, 1000, 1001, 1900, 1901, 1950, 6599, 6600, 6601, 6700,
     11999, 12000, 12000 + KelvinMargin}
    \cup { 500 * i : i \in 1..25 }

\* every pair of neighbouring integer temperatures, and every pair of the grid
KelvinPairs ==
    { <<k, k + 1>> : k \in (1000 - KelvinMargin)..(12000 + KelvinMargin) }
    \cup { pr \in KelvinGrid \X KelvinGrid : pr[1] < pr[2] }

InitKelvin ==
    /\ InitStart
    /\ cam_vals["BRIGHTNESS"] = -1

\* kelvin_to_rgb(k1) and kelvin_to_rgb(k2)
EvalKelvin ==
    /\ st_fn = "none"
    /\ \E pr \in KelvinPairs :
         /\ st_args' = pr
         /\ st_out' = << kelvin_to_rgb(pr[1]), kelvin_to_rgb(pr[2]) >>
    /\ st_fn' = "kelvin_to_rgb"
    /\ st_in' = st_in
    /\ UNCHANGED <<storeVars, renderVars, otherVars>>

NextKelvin == EvalKelvin

SpecKelvin == InitKelvin /\ [][NextKelvin]_vars

-----------------------------------------------------------------------------
(* extract.py: extract_svo2(svo_path, output_dir, max_frames), and its call   *)
(* from batch_extract.py                                                     *)

\* batch_extract.py: MAX_FRAMES
MAX_FRAMES == 100000

\* values of the argument max_frames: None, small counts, and the batch value
MaxFramesArgs == {None} \cup 0..(MaxTotal + 1) \cup {MAX_FRAMES}

\* a limit that ignores max_frames
ExtractLimitTotal(tot, mf) == tot

\* limit = total if max_frames is None else min(total, max_frames)
ExtractLimit(tot, mf) == IF mf = None THEN tot ELSE IF tot < mf THEN tot ELSE mf

InitExtract ==
    /\ mainpc = "start"
    /\ is_playback = FALSE
    /\ camera_settings = "BRIGHTNESS"
    /\ str_camera_settings = N_BRIGHTNESS
    /\ proc_vals = proc_vals_init
    /\ led_on = TRUE
    /\ cam_vals = [r \in DeviceRegs |-> IF r = "LED_STATUS" THEN 1 ELSE -1]
    /\ cam_calls = <<>>
    /\ last_key = 0
    /\ inc_outcome = "none"
    /\ prev_vals = proc_vals_init
    /\ prev_setting = "BRIGHTNESS"
    /\ ncmd = 0
    /\ s_run = <<"BRIGHTNESS">>
    /\ RenderElided
    /\ StageCallsIdle
    /\ ExportIdle
    /\ ViewerIdle
    /\ HeapIdle
    /\ ex_pc = "call"
    /\ total \in 0..MaxTotal
    /\ max_frames \in MaxFramesArgs
    /\ limit = 0
    /\ frame_idx = 0
    /\ svo_pos = 0
    /\ images = <<>>
    /\ depths = <<>>
    /\ pose_rows = <<>>
    /\ grab_failed = FALSE

\* zed.open fails, or enable_positional_tracking fails: RuntimeError, nothing written
ExRaise ==
    /\ ex_pc = "call"
    /\ ex_pc' = "raised"
    /\ UNCHANGED <<total, max_frames, limit, frame_idx, svo_pos, images, depths, pose_rows,
                   grab_failed>>
    /\ UNCHANGED <<storeVars, renderVars, stageVars, exportVars, viewerVars, heapVars>>

\* directories made, camera open, tracking on, header row written; limit and frame_idx set
ExStart ==
    /\ ex_pc = "call"
    /\ limit' = ExtractLimit(total, max_frames)
    /\ frame_idx' = 0
    /\ ex_pc' = "loop"
    /\ UNCHANGED <<total, max_frames, svo_pos, images, depths, pose_rows, grab_failed>>
    /\ UNCHANGED <<storeVars, renderVars, stageVars, exportVars, viewerVars, heapVars>>

\* frame_idx < limit and zed.grab succeeds: image, depth and pose row of frame_idx, then += 1
ExGrabOk ==
    /\ ex_pc = "loop"
    /\ frame_idx < limit
    /\ svo_pos < total
    /\ svo_pos' = svo_pos + 1
    /\ images' = Append(images, frame_idx)
    /\ depths' = Append(depths, frame_idx)
    /\ pose_rows' = Append(pose_rows, frame_idx)
    /\ frame_idx' = frame_idx + 1
    /\ UNCHANGED <<ex_pc, total, max_frames, limit, grab_failed>>
    /\ UNCHANGED <<storeVars, renderVars, stageVars, exportVars, viewerVars, heapVars>>

\* frame_idx < limit and zed.grab does not return SUCCESS: break
ExGrabFail ==
    /\ ex_pc = "loop"
    /\ frame_idx < limit
    /\ grab_failed' = TRUE
    /\ ex_pc' = "close"
    /\ UNCHANGED <<total, max_frames, limit, frame_idx, svo_pos, images, depths, pose_rows>>
    /\ UNCHANGED <<storeVars, renderVars, stageVars, exportVars, viewerVars, heapVars>>

\* the loop condition frame_idx < limit is false
ExLoopEnd ==
    /\ ex_pc = "loop"
    /\ ~(frame_idx < limit)
    /\ ex_pc' = "close"
    /\ UNCHANGED <<total, max_frames, limit, frame_idx, svo_pos, images, depths, pose_rows,
                   grab_failed>>
    /\ UNCHANGED <<storeVars, renderVars, stageVars, exportVars, viewerVars, heapVars>>

\* poses.csv closed, zed.close(), the summary printed
ExClose ==
    /\ ex_pc = "close"
    /\ ex_pc' = "done"
    /\ UNCHANGED <<total, max_frames, limit, frame_idx, svo_pos, images, depths, pose_rows,
                   grab_failed>>
    /\ UNCHANGED <<storeVars, renderVars, stageVars, exportVars, viewerVars, heapVars>>

NextExtract == ExRaise \/ ExStart \/ ExGrabOk \/ ExGrabFail \/ ExLoopEnd \/ ExClose

SpecExtract == InitExtract /\ [][NextExtract]_vars

-----------------------------------------------------------------------------
(* camera_control.py and camera_settings.py: the viewers with pause and step *)

\* values cv2.waitKey(5) returns: -1 (no key), space, 'n', 'q', 's', '+', '-', 'r',
\* 'l', 'a', 'f'
RawKeys == {-1, 32, 110, 113, 115, 43, 45, 114, 108, 97, 102}

\* key = cv2.waitKey(5) & 0xFF in camera_control.py, key = cv2.waitKey(5) in camera_settings.py
KeyRead(vp, raw) == IF vp = "camera_control" THEN raw % 256 ELSE raw

\* a loop head that grabs whether paused or not
GrabAtTopAlways(vp, p, key) == TRUE

\* the condition of the grab at the head of the loop:
\* "if not paused:" (camera_control.py), "if not paused or key == 110:" (camera_settings.py)
GrabAtTop(vp, p, key) ==
    IF vp = "camera_control" THEN ~p ELSE (~p \/ key = 110)

InitViewer ==
    /\ mainpc = "start"
    /\ is_playback = FALSE
    /\ camera_settings = "CONTRAST"
    /\ str_camera_settings = D_Contrast
    /\ proc_vals = proc_vals_init
    /\ led_on = TRUE
    /\ \E dv \in DevInitVals : cam_vals = [r \in DeviceRegs |-> IF r = "LED_STATUS" THEN 1 ELSE dv]
    /\ cam_calls = <<>>
    /\ last_key = 0
    /\ inc_outcome = "none"
    /\ prev_vals = proc_vals_init
    /\ prev_setting = "BRIGHTNESS"
    /\ ncmd = 0
    /\ s_run = <<"BRIGHTNESS">>
    /\ RenderElided
    /\ StageCallsIdle
    /\ ExportIdle
    /\ ExtractIdle
    /\ HeapIdle
    /\ vw_prog \in {"camera_control", "camera_settings"}
    /\ vw_pc = "top"
    /\ paused = FALSE
    /\ vw_key = -1
    /\ vw_iters = 0
    /\ vw_log = <<>>

\* what a viewer action leaves alone outside the viewer and the device
ViewerFrame ==
    /\ UNCHANGED <<mainpc, is_playback, proc_vals, last_key, inc_outcome, prev_vals,
                   prev_setting, ncmd, s_run>>
    /\ UNCHANGED <<renderVars, stageVars, exportVars, extractVars, heapVars>>

\* head of the loop, grab condition true, cam.grab succeeds: the frame is shown
VwTopGrabOk ==
    /\ vw_pc = "top" /\ vw_iters < MaxIters
    /\ GrabAtTop(vw_prog, paused, vw_key)
    /\ vw_log' = vw_log \o << <<"iter", 0, paused>>, <<"grab", 0, paused>> >>
    /\ vw_iters' = vw_iters + 1
    /\ vw_pc' = "wait"
    /\ UNCHANGED <<vw_prog, paused, vw_key>>
    /\ UNCHANGED <<camera_settings, str_camera_settings, led_on, cam_vals, cam_calls>>
    /\ ViewerFrame

\* head of the loop, grab condition true, cam.grab fails: break
VwTopGrabFail ==
    /\ vw_pc = "top" /\ vw_iters < MaxIters
    /\ GrabAtTop(vw_prog, paused, vw_key)
    /\ vw_log' = vw_log \o << <<"iter", 0, paused>>, <<"grab", 0, paused>> >>
    /\ vw_iters' = vw_iters + 1
    /\ vw_pc' = "exit"
    /\ UNCHANGED <<vw_prog, paused, vw_key>>
    /\ UNCHANGED <<camera_settings, str_camera_settings, led_on, cam_vals, cam_calls>>
    /\ ViewerFrame

\* head of the loop, grab condition false: no grab (camera_control.py shows last_frame again)
VwTopHold ==
    /\ vw_pc = "top" /\ vw_iters < MaxIters
    /\ ~GrabAtTop(vw_prog, paused, vw_key)
    /\ vw_log' = Append(vw_log, <<"iter", 0, paused>>)
    /\ vw_iters' = vw_iters + 1
    /\ vw_pc' = "wait"
    /\ UNCHANGED <<vw_prog, paused, vw_key>>
    /\ UNCHANGED <<camera_settings, str_camera_settings, led_on, cam_vals, cam_calls>>
    /\ ViewerFrame

\* waitKey returns space: paused = not paused
VwSpace ==
    /\ vw_pc = "wait"
    /\ vw_key' = KeyRead(vw_prog, 32)
    /\ paused' = ~paused
    /\ vw_log' = Append(vw_log, <<"key", vw_key', paused'>>)
    /\ vw_pc' = "top"
    /\ UNCHANGED <<vw_prog, vw_iters>>
    /\ UNCHANGED <<camera_settings, str_camera_settings, led_on, cam_vals, cam_calls>>
    /\ ViewerFrame

\* camera_control.py: waitKey returns 'n' while paused: one cam.grab, then continue
\* whether the grab succeeded or not
VwStep ==
    /\ vw_pc = "wait"
    /\ vw_prog = "camera_control" /\ paused
    /\ vw_key' = KeyRead(vw_prog, 110)
    /\ vw_log' = vw_log \o << <<"key", vw_key', paused>>, <<"grab", 0, paused>> >>
    /\ vw_pc' = "top"
    /\ UNCHANGED <<vw_prog, paused, vw_iters>>
    /\ UNCHANGED <<camera_settings, str_camera_settings, led_on, cam_vals, cam_calls>>
    /\ ViewerFrame

\* waitKey returns no key or another key: update_camera_settings(key, ...) unless
\* camera_settings.py sees key <= 0; then the loop condition key != 113
VwOther ==
    /\ vw_pc = "wait"
    /\ \E raw \in RawKeys \ {32} :
         LET key == KeyRead(vw_prog, raw) IN
         /\ ~(vw_prog = "camera_control" /\ key = 110 /\ paused)
         /\ vw_key' = key
         /\ vw_log' = Append(vw_log, <<"key", key, paused>>)
         /\ vw_pc' = IF key = 113 THEN "exit" ELSE "top"
         /\ CASE key = 115 ->
                   /\ camera_settings' = SwitchSetting(camera_settings)
                   /\ str_camera_settings' = SwitchString(camera_settings, str_camera_settings)
                   /\ cam_calls' = <<>>
                   /\ UNCHANGED <<led_on, cam_vals>>
              [] key = 43 ->
                   LET current_value == cam_vals[camera_settings] IN
                   /\ cam_vals' = DevSet(cam_vals, camera_settings,
                                         current_value + step_camera_settings)
                   /\ cam_calls' = << <<"set_camera_settings", camera_settings,
                                        current_value + step_camera_settings>> >>
                   /\ UNCHANGED <<camera_settings, str_camera_settings, led_on>>
              [] key = 45 ->
                   LET current_value == cam_vals[camera_settings] IN
                   /\ IF current_value >= 1
                      THEN /\ cam_vals' = DevSet(cam_vals, camera_settings,
                                                 current_value - step_camera_settings)
                           /\ cam_calls' = << <<"set_camera_settings", camera_settings,
                                                current_value - step_camera_settings>> >>
                      ELSE /\ cam_calls' = <<>>
                           /\ UNCHANGED cam_vals
                   /\ UNCHANGED <<camera_settings, str_camera_settings, led_on>>
              [] key = 114 ->
                   /\ cam_vals' = [r \in DeviceRegs |->
                                     IF r \in VIDEO_SETTINGS THEN -1 ELSE cam_vals[r]]
                   /\ cam_calls' = ResetCalls
                   /\ UNCHANGED <<camera_settings, str_camera_settings, led_on>>
              [] key = 108 ->
                   /\ led_on' = ~led_on
                   /\ cam_vals' = DevSet(cam_vals, "LED_STATUS", IF led_on' THEN 1 ELSE 0)
                   /\ cam_calls' = << <<"set_camera_settings", "LED_STATUS",
                                        IF led_on' THEN 1 ELSE 0>> >>
                   /\ UNCHANGED <<camera_settings, str_camera_settings>>
              [] key = 97 /\ vw_prog = "camera_control" ->
                   \* set_camera_settings_roi(AEC_AGC_ROI, selection_rect, sl.SIDE.BOTH)
                   /\ cam_calls' = << <<"set_camera_settings_roi", "AEC_AGC_ROI", 0>> >>
                   /\ UNCHANGED <<camera_settings, str_camera_settings, led_on, cam_vals>>
              [] key = 102 /\ vw_prog = "camera_control" ->
                   \* set_camera_settings_roi(AEC_AGC_ROI, selection_rect, sl.SIDE.BOTH, True)
                   /\ cam_calls' = << <<"set_camera_settings_roi", "AEC_AGC_ROI", 1>> >>
                   /\ UNCHANGED <<camera_settings, str_camera_settings, led_on, cam_vals>>
              [] OTHER ->
                   /\ cam_calls' = <<>>
                   /\ UNCHANGED <<camera_settings, str_camera_settings, led_on, cam_vals>>
    /\ UNCHANGED <<vw_prog, paused, vw_iters>>
    /\ ViewerFrame

NextViewer ==
    \/ VwTopGrabOk \/ VwTopGrabFail \/ VwTopHold
    \/ VwSpace \/ VwStep \/ VwOther

SpecViewer == InitViewer /\ [][NextViewer]_vars

-----------------------------------------------------------------------------
(* The brightness term of render / apply_svo_pipeline on its own *)

BetaBrightness == {-100, 0, 100}

\* params["BRIGHTNESS"] + extra_beta for one choice of BRIGHTNESS, EXPOSURE, GAIN
EvalBeta ==
    /\ st_fn = "none"
    /\ \E b \in BetaBrightness, e \in 0..100, g \in 0..100 :
         LET P == [proc_vals_init EXCEPT ![N_BRIGHTNESS] = b, ![N_EXPOSURE] = e, ![N_GAIN] = g]
         IN  /\ st_args' = <<b, e, g>>
             /\ st_out' = << P[N_BRIGHTNESS] + extra_beta(P) >>
    /\ st_fn' = "extra_beta"
    /\ st_in' = st_in
    /\ UNCHANGED <<storeVars, renderVars, otherVars>>

NextBeta == EvalBeta

SpecBeta == InitKelvin /\ [][NextBeta]_vars

-----------------------------------------------------------------------------
(* The hue update of apply_hue_saturation on its own *)

\* hue values of cv2.COLOR_BGR2HSV on 8-bit images
HueValues == 0..179

\* HUE of the ParameterSet; the trackbar and _inc_proc give integers
HueUnits == -90..90

\* hue_shift_deg, hue_shift_deg // 2 and the new hue for one h and one hue_units
EvalHue ==
    /\ st_fn = "none"
    /\ \E h \in HueValues, u \in HueUnits :
         /\ st_args' = <<h, u>>
         /\ st_out' = << HueShiftDeg(u), HueShiftDeg(u) \div 2, NewHue(h, u) >>
    /\ st_fn' = "hue"
    /\ st_in' = st_in
    /\ UNCHANGED <<storeVars, renderVars, otherVars>>

NextHue == EvalHue

SpecHue == InitKelvin /\ [][NextHue]_vars

-----------------------------------------------------------------------------
(* Properties of the ParameterStore *)

Min(a, b) == IF a < b THEN a ELSE b
Max(a, b) == IF a > b THEN a ELSE b

\* Table 1 of the design: range and default of each of the eight names
DeclaredRange ==
    (N_BRIGHTNESS :> <<-100, 100>>) @@ (N_CONTRAST :> <<0, 100>>) @@
    (N_HUE :> <<-90, 90>>) @@ (N_SATURATION :> <<-100, 100>>) @@
    (N_SHARPNESS :> <<0, 60>>) @@ (N_GAIN :> <<0, 100>>) @@
    (N_EXPOSURE :> <<0, 100>>) @@ (N_WHITEBALANCE_TEMPERATURE :> <<2000, 8000>>)

DeclaredDefault ==
    (N_BRIGHTNESS :> 0) @@ (N_CONTRAST :> 0) @@ (N_HUE :> 0) @@ (N_SATURATION :> 0) @@
    (N_SHARPNESS :> 0) @@ (N_GAIN :> 0) @@ (N_EXPOSURE :> 0) @@
    (N_WHITEBALANCE_TEMPERATURE :> 5500)

EightNames == DOMAIN DeclaredRange

\* the ParameterSet entry that belongs to a member of sl.VIDEO_SETTINGS
EntryOf(cs) ==
    CASE cs = "BRIGHTNESS" -> N_BRIGHTNESS
      [] cs = "CONTRAST" -> N_CONTRAST
      [] cs = "HUE" -> N_HUE
      [] cs = "SATURATION" -> N_SATURATION
      [] cs = "SHARPNESS" -> N_SHARPNESS
      [] cs = "GAIN" -> N_GAIN
      [] cs = "EXPOSURE" -> N_EXPOSURE
      [] cs = "WHITEBALANCE_TEMPERATURE" -> N_WHITEBALANCE_TEMPERATURE

\* the fixed order of the design: each name and its successor
FixedOrder == <<"BRIGHTNESS", "CONTRAST", "HUE", "SATURATION", "SHARPNESS",
                "GAIN", "EXPOSURE", "WHITEBALANCE_TEMPERATURE">>

PosInOrder(cs) == CHOOSE i \in 1..8 : FixedOrder[i] = cs

\* an Increment or Decrement command was the last command of a playback session
Adjusted == is_playback /\ last_key \in {43, 45}

\* C1: in every reachable state each of the eight values lies inside its
\* declared range.
C1_ValuesInRange ==
    /\ DOMAIN proc_vals = EightNames
    /\ \A n \in EightNames :
         /\ proc_vals[n] >= DeclaredRange[n][1]
         /\ proc_vals[n] <= DeclaredRange[n][2]

\* an Increment was applied to a value that already stood at the top of its range
C1_Witness ==
    /\ is_playback /\ last_key = 43 /\ inc_outcome = "stored"
    /\ prev_vals[EntryOf(prev_setting)] = DeclaredRange[EntryOf(prev_setting)][2]
    /\ proc_vals[EntryOf(prev_setting)] = DeclaredRange[EntryOf(prev_setting)][2]

\* C2 (as claimed): whichever of the eight settings is active, Increment stores
\* min(v+1, hi) and Decrement stores max(v-1, lo) in that setting's entry.
C2_StepsActiveSetting ==
    Adjusted =>
        LET n == EntryOf(prev_setting)
            v == prev_vals[n]
        IN  proc_vals[n] = IF last_key = 43
                           THEN Min(v + 1, DeclaredRange[n][2])
                           ELSE Max(v - 1, DeclaredRange[n][1])

\* C3: with BRIGHTNESS selected and starting from the defaults, after n '+'
\* presses BRIGHTNESS is min(n, 100), never more than 100.
C3_BrightnessAfterN ==
    /\ proc_vals[N_BRIGHTNESS] = Min(ncmd, 100)
    /\ proc_vals[N_BRIGHTNESS] <= 100

\* 250 presses have been handled and BRIGHTNESS stands at 100
C3_Witness == ncmd >= 250 /\ last_key = 43 /\ proc_vals[N_BRIGHTNESS] = 100

\* C4: after a Reset command all eight entries hold their documented defaults.
C4_ResetRestoresDefaults ==
    (is_playback /\ last_key = 114) =>
        /\ DOMAIN proc_vals = EightNames
        /\ \A n \in EightNames : proc_vals[n] = DeclaredDefault[n]

\* a Reset was applied to a store in which no adjustable value was at its default
C4_Witness ==
    /\ is_playback /\ last_key = 114
    /\ \A n \in EightNames \ {N_WHITEBALANCE_TEMPERATURE, N_CONTRAST, N_SHARPNESS, N_GAIN, N_EXPOSURE} :
          prev_vals[n] # DeclaredDefault[n]
    /\ prev_vals[N_CONTRAST] = 100
    /\ proc_vals = DeclaredDefault

\* C5: CycleActive follows the fixed order and is a single 8-cycle: two
\* positions of a run of presses show the same setting exactly when they are a
\* multiple of 8 presses apart.
C5_EightCycle ==
    /\ \A i \in 1..(Len(s_run) - 1) :
          s_run[i + 1] = FixedOrder[(PosInOrder(s_run[i]) % 8) + 1]
    /\ \A i, j \in 1..Len(s_run) :
          i < j => ((s_run[i] = s_run[j]) <=> ((j - i) % 8 = 0))

\* eight presses have been made from WHITEBALANCE_TEMPERATURE and it is active again
C5_Witness ==
    /\ Len(s_run) >= 9
    /\ s_run[1] = "WHITEBALANCE_TEMPERATURE"
    /\ s_run[9] = "WHITEBALANCE_TEMPERATURE"
    /\ camera_settings = s_run[Len(s_run)]

\* C6 (as claimed): an adjustment whose target name is not one of the eight
\* names signals an error instead of returning normally, and changes no value.
C6_UnknownNameFailsFast ==
    (Adjusted /\ IncName(str_camera_settings) \notin EightNames) =>
        /\ inc_outcome = "raised"
        /\ proc_vals = prev_vals

-----------------------------------------------------------------------------
(* Properties of the pipeline *)

\* the stage order of the design, after the initial copy
StageNames == <<"copy", "bc", "wb", "hs", "sh">>

\* a render is under way or has just returned, and no key has been handled since
RenderInView == rpc \in {"bc", "wb", "hs", "sh", "ret", "key"} /\ chain # <<>>

\* C7: every render applies Brightness/Contrast, White balance, Hue/Saturation
\* and Sharpness exactly once each, in that order, each stage on the previous
\* stage's output, whatever the parameter values; in render and in
\* apply_svo_pipeline.
C7_StageOrder ==
    /\ Len(chain) <= 5
    /\ \A i \in 1..Len(chain) : chain[i][1] = StageNames[i]
    /\ (rpc \in {"bc", "wb", "hs", "sh"}) => StageNames[Len(chain) + 1] = rpc
    /\ (rpc = "ret") => Len(chain) = 5
    /\ RenderInView =>
         LET P == StageParams IN
         /\ Len(chain) >= 2 =>
              chain[2][2] = apply_brightness_contrast(chain[1][2],
                                P[N_BRIGHTNESS] + extra_beta(P), P[N_CONTRAST])
         /\ Len(chain) >= 3 =>
              chain[3][2] = apply_wb_temperature(chain[2][2], P[N_WHITEBALANCE_TEMPERATURE])
         /\ Len(chain) >= 4 =>
              chain[4][2] = apply_hue_saturation(chain[3][2], P[N_HUE], P[N_SATURATION])
         /\ Len(chain) >= 5 =>
              chain[5][2] = apply_sharpness(chain[4][2], P[N_SHARPNESS])
         /\ rpc = "key" => (Len(chain) = 5 /\ vis = chain[5][2])

\* a render has returned in which every stage changed the frame
C7_Witness ==
    /\ rpc = "key" /\ Len(chain) = 5
    /\ \A i, j \in 1..5 : i < j => chain[i][2] # chain[j][2]
    /\ vis = chain[5][2]

\* C8: two completed renders of the same frame with the same parameter
\* snapshot returned the same output, whatever was rendered before or between.
C8_RenderDeterministic ==
    \A i, j \in 1..Len(rendered) :
        (rendered[i][1] = rendered[j][1] /\ rendered[i][2] = rendered[j][2])
            => rendered[i][3] = rendered[j][3]

\* the first and third render had the same inputs, the second had other
\* parameters and another output
C8_Witness ==
    /\ Len(rendered) >= 3
    /\ rendered[1][1] = rendered[3][1] /\ rendered[1][2] = rendered[3][2]
    /\ rendered[2][2] # rendered[1][2]
    /\ rendered[2][3] # rendered[1][3]
    /\ rendered[1][3] = rendered[3][3]
    /\ rendered[1][3] # rendered[1][1]

\* a frame whose pixels are all {128, 128, 128}
FlatMidGray(f) == f # NoFrame /\ \A i \in 1..Len(f) : f[i] = <<128, 128, 128>>

\* C9 (as claimed): a flat mid-gray frame rendered with the default
\* ParameterSet comes back with every channel within 1 of 128.
C9_MidGrayDefaults ==
    (rpc = "key" /\ Len(chain) = 5 /\ FlatMidGray(src_frame) /\ StageParams = DeclaredDefault) =>
        \A i \in 1..Len(vis) : \A ch \in 1..3 :
            vis[i][ch] >= 127 /\ vis[i][ch] <= 129

\* C10: the sharpness stage returns its input frame, pixel for pixel, when
\* sharpUnits is 0 or negative.
C10_SharpnessIdentity ==
    (st_fn = "apply_sharpness" /\ st_args[1] <= 0) => st_out = st_in

\* the stage was applied with negative sharpUnits to a frame that sharpening
\* with the same magnitude would change
C10_Witness ==
    /\ st_fn = "apply_sharpness" /\ st_args[1] < 0
    /\ st_out = st_in
    /\ Unsharp(st_in, -st_args[1]) # st_in

-----------------------------------------------------------------------------
(* Properties of the stage functions *)

\* C11: for temperatures k1 < k2, also outside [1000, 12000], the blue gain at
\* k2 is at least the blue gain at k1 and the red gain at k2 is at most the
\* red gain at k1.
C11_KelvinMonotone ==
    (st_fn = "kelvin_to_rgb" /\ st_args[1] < st_args[2]) =>
        /\ ~F32Less(st_out[2][3], st_out[1][3])
        /\ ~F32Less(st_out[1][1], st_out[2][1])

\* a cool and a warm temperature were converted: blue rose and red fell, strictly
C11_Witness ==
    /\ st_fn = "kelvin_to_rgb"
    /\ st_args[1] < 6600 /\ st_args[2] > 6600
    /\ F32Less(st_out[1][3], st_out[2][3])
    /\ F32Less(st_out[2][1], st_out[1][1])

\* a frame of zero width, or with a pixel that has not exactly three channels
BadShape(f) == Len(f) = 0 \/ \E i \in 1..Len(f) : Len(f[i]) # 3

\* C12: render rejects a frame of zero width or height or of a channel count
\* other than 3 before the first stage runs: no stage is applied to it and no
\* frame is returned for it.
C12_RejectsBadShape ==
    (prog = "single_frame" /\ BadShape(src_frame)) =>
        /\ \A j \in 1..Len(chain) : chain[j][1] = "copy"
        /\ vis = NoFrame
        /\ rendered = <<>>

\* the name/value pairs of P in sorted-by-name order (names compared by code point)
SortedByName(P) ==
    LET Code(c) == IF c = "_" THEN 95 ELSE 64 + (CHOOSE i \in 1..26 : UpperLetters[i] = c)
        Less(a, b) ==
            \E i \in 1..Len(a) :
                /\ \A j \in 1..(i - 1) : j <= Len(b) /\ a[j] = b[j]
                /\ i <= Len(b) /\ Code(a[i]) < Code(b[i])
        Before(a, b) == Less(a, b) \/ (Len(a) < Len(b) /\ \A j \in 1..Len(a) : a[j] = b[j])
        Rank(n) == 1 + Cardinality({ m \in DOMAIN P : Before(m, n) })
    IN  [i \in 1..Cardinality(DOMAIN P) |->
            LET n == CHOOSE m \in DOMAIN P : Rank(m) = i IN << n, P[n] >>]

\* C13: the exported snapshot - the JSON printed by 'p' and the 'settings'
\* object written by 'w' - holds exactly the eight name/value pairs of the
\* current ParameterSet, in sorted-by-name key order.
C13_SnapshotSorted ==
    /\ (prog = "single_frame" /\ rpc = "grab" /\ sf_k = 112) =>
           printed[2] = SortedByName(params)
    /\ (prog = "single_frame" /\ rpc = "grab" /\ sf_k = 119) =>
           settings_file[2][2] = SortedByName(params)

\* the part about the pairs alone: the eight pairs of the current ParameterSet
SnapshotPairs ==
    /\ (prog = "single_frame" /\ rpc = "grab" /\ sf_k = 112) =>
           /\ Len(printed[2]) = 8
           /\ { printed[2][i] : i \in 1..8 } = { << n, params[n] >> : n \in EightNames }
    /\ (prog = "single_frame" /\ rpc = "grab" /\ sf_k = 119) =>
           /\ Len(settings_file[2][2]) = 8
           /\ { settings_file[2][2][i] : i \in 1..8 } = { << n, params[n] >> : n \in EightNames }

-----------------------------------------------------------------------------
(* Properties of extract_svo2 *)

\* the sequence 0, 1, ..., n - 1
UpTo(n) == [i \in 1..n |-> i - 1]

\* the most frames the call may extract: min(total, max_frames), total when None
Allowed == IF max_frames = None THEN total ELSE Min(total, max_frames)

\* C14: extract_svo2 extracts at most min(total, max_frames) frames (all of
\* them when max_frames is None and no grab fails), stops at the first failed
\* grab, and when it ends the indices written are exactly 0..n-1, with one
\* image file, one depth file and one pose row for each, in increasing order.
C14_ExtractContiguous ==
    /\ ex_pc \in {"loop", "close", "done"} =>
           /\ frame_idx <= Allowed
           /\ images = UpTo(frame_idx)
           /\ depths = UpTo(frame_idx)
           /\ pose_rows = UpTo(frame_idx)
    /\ grab_failed => ex_pc \in {"close", "done"}
    /\ (ex_pc = "done" /\ ~grab_failed) => frame_idx = Allowed

\* a call that was cut short by a failed grab after two frames or more
C14_Witness ==
    /\ ex_pc = "done"
    /\ grab_failed
    /\ frame_idx >= 2
    /\ frame_idx < Allowed
    /\ max_frames # None /\ max_frames < total

-----------------------------------------------------------------------------
(* Properties of the pause/step viewers *)

IsKey(j) == vw_log[j][1] = "key"
IsGrab(j) == vw_log[j][1] = "grab"

\* the 'n' presses made while paused
StepPresses == { j \in 1..Len(vw_log) : IsKey(j) /\ vw_log[j][2] = 110 /\ vw_log[j][3] }

\* the grabs made between event j and the next key event
GrabsAfter(j) ==
    { g \in (j + 1)..Len(vw_log) :
        IsGrab(g) /\ \A m \in (j + 1)..g : ~IsKey(m) }

\* the answer to the key event j is complete: a later key was read, or the loop
\* has passed its head again or has ended
Answered(j) == (\E m \in (j + 1)..Len(vw_log) : IsKey(m)) \/ vw_pc # "top"

\* C15: space toggles paused and no other key changes it ('n' leaves it true);
\* while paused a frame is grabbed only in response to 'n', exactly one grab
\* for each press; while not paused every loop iteration grabs a frame.
C15_PauseStep ==
    /\ \A j \in 1..Len(vw_log) :
         IsKey(j) => (vw_log[j][3] = IF vw_log[j][2] = 32 THEN ~vw_log[j - 1][3]
                                     ELSE vw_log[j - 1][3])
    /\ \A g \in 1..Len(vw_log) :
         (IsGrab(g) /\ vw_log[g][3]) => \E j \in StepPresses : g \in GrabsAfter(j)
    /\ \A j \in StepPresses :
         /\ Cardinality(GrabsAfter(j)) <= 1
         /\ Answered(j) => Cardinality(GrabsAfter(j)) = 1
    /\ \A j \in 1..Len(vw_log) :
         (vw_log[j][1] = "iter" /\ ~vw_log[j][3]) => (j < Len(vw_log) /\ IsGrab(j + 1))

\* the viewer was paused, stepped once with 'n', and resumed: a grab while paused
\* and a later one while playing
C15_Witness ==
    /\ vw_prog = "camera_settings"
    /\ \E j \in StepPresses : \E g \in GrabsAfter(j) :
         /\ vw_log[g][3]
         /\ \E h \in (g + 1)..Len(vw_log) : IsGrab(h) /\ ~vw_log[h][3]

-----------------------------------------------------------------------------
(* Properties of the numeric stages *)

\* the values clamp(round(n / d), 0, 255) may take, n / d negative giving 0;
\* a tie may be rounded either way
ClampRound(n, d) ==
    IF n < 0 THEN {0}
    ELSE { SatU8(RoundHalfEven(n, d)), SatU8((2 * n + d) \div (2 * d)) }

\* the brightness values that can reach the stage: BRIGHTNESS in [-100, 100] plus
\* the exposure/gain term in [0, 160]
EffectiveBeta == -100..260

\* C16: for every channel value, every CONTRAST in [0, 100] and every effective
\* brightness beta the brightness/contrast stage gives
\* clamp(round(alpha * in + beta), 0, 255) with alpha = 1 + 0.02 * max(0, contrast);
\* where alpha * in + beta is negative the output is 0.
C16_BrightnessContrastClamp ==
    (st_fn = "apply_brightness_contrast" /\ st_args[1] \in EffectiveBeta
                                         /\ st_args[2] \in 0..100) =>
        \A i \in 1..Len(st_in) : \A ch \in 1..Len(st_in[i]) :
            st_out[i][ch] \in ClampRound(st_in[i][ch] * (50 + st_args[2]) + 50 * st_args[1], 50)

\* where alpha * in + beta is not negative, the stage does give the clamped rounding
BrightnessContrastNonNegative ==
    (st_fn = "apply_brightness_contrast" /\ st_args[1] \in EffectiveBeta
                                         /\ st_args[2] \in 0..100) =>
        \A i \in 1..Len(st_in) : \A ch \in 1..Len(st_in[i]) :
            st_in[i][ch] * (50 + st_args[2]) + 50 * st_args[1] >= 0 =>
                st_out[i][ch] \in ClampRound(st_in[i][ch] * (50 + st_args[2]) + 50 * st_args[1], 50)

\* C17: for EXPOSURE and GAIN in [0, 100] the brightness handed to the
\* brightness/contrast stage is BRIGHTNESS + round(EXPOSURE + 0.6 * GAIN),
\* rounded to the nearest integer (0.6 * GAIN is never half-way between two).
C17_BetaRounded ==
    st_fn = "extra_beta" =>
        st_out[1] = st_args[1] + st_args[2] + (6 * st_args[3] + 5) \div 10

\* C18: for every hue h in 0..179 and every integer hueUnits in [-90, 90] the
\* new hue is (h + floor(round(2 * hueUnits) / 2)) mod 180 with the non-negative
\* modulus: it lies in 0..179, also for negative shifts, and differs from
\* h + hueUnits by a multiple of 180.
C18_HueWraps ==
    st_fn = "hue" =>
        /\ st_out[3] \in 0..179
        /\ \E q \in -1..1 : st_args[1] + st_args[2] = 180 * q + st_out[3]

\* a negative shift took the hue below 0 and it wrapped round
C18_Witness ==
    /\ st_fn = "hue"
    /\ st_args[1] + st_args[2] < 0
    /\ st_out[3] = st_args[1] + st_args[2] + 180

\* C19 as stated: for odd hueUnits the division hueShiftDeg / 2 loses half a
\* unit, so the shift applied is not half of hueShiftDeg; for even hueUnits
\* doubling and halving cancel.
C19_OddUnitsTruncated ==
    st_fn = "hue" =>
        IF st_args[2] % 2 = 1
        THEN 2 * st_out[2] # st_out[1]
        ELSE st_out[2] = st_args[2]

\* C19, amended: for every integer hueUnits, odd or even, hueShiftDeg is even,
\* the division by 2 is exact and the shift applied is hueUnits itself.
C19_ShiftExact ==
    st_fn = "hue" =>
        /\ 2 * st_out[2] = st_out[1]
        /\ st_out[2] = st_args[2]

\* an odd, negative hueUnits went through the doubling and the halving unchanged
C19_Witness ==
    /\ st_fn = "hue"
    /\ st_args[2] % 2 = 1 /\ st_args[2] < 0
    /\ st_out[2] = st_args[2]

\* the integer nearest to clamp(v * sc, 0, 255) for a scale sc = m * 2^e below 2^11:
\* the exact product is (hi * 4096 + lo) * 2^e
NearestClamped(v, sc) ==
    IF v = 0 \/ sc[1] = 0 \/ -sc[2] > 42 THEN 0
    ELSE LET hi == v * (sc[1] \div 4096) + (v * (sc[1] % 4096)) \div 4096
             n  == (hi + Pow2(-sc[2] - 13)) \div Pow2(-sc[2] - 12)
         IN  IF n > 255 THEN 255 ELSE n

\* C20: the white-balance stage gives, for every channel value and every scale
\* factor, the integer nearest to clamp(in * scale, 0, 255) - rounded, not
\* truncated - and leaves the green channel equal to its input.
C20_WhiteBalanceRounded ==
    st_fn = "apply_wb_temperature" =>
        \A i \in 1..Len(st_in) :
            /\ st_out[i][1] = NearestClamped(st_in[i][1], wb_scale(st_args[1])[3])
            /\ st_out[i][3] = NearestClamped(st_in[i][3], wb_scale(st_args[1])[1])
            /\ st_out[i][2] = st_in[i][2]

\* the part about green alone
WhiteBalanceKeepsGreen ==
    st_fn = "apply_wb_temperature" =>
        \A i \in 1..Len(st_in) : st_out[i][2] = st_in[i][2]

-----------------------------------------------------------------------------
(* Properties of the effects of render and of the store commands *)

\* a render has been called and no key has been handled since it returned
RenderCalled == arg_ref # 0 /\ rpc \in {"bc", "wb", "hs", "sh", "ret", "key"}

\* C21: a render leaves its inputs unchanged: while it runs and after it has
\* returned - for any parameter values, SHARPNESS = 0 included, where the last
\* stage returns the object it was given - the frame object passed in holds the
\* pixels it held at the call, and every parameter holds the value it had at
\* the call.
C21_RenderKeepsInputs ==
    RenderCalled =>
        /\ heap[arg_ref] = src_frame
        /\ StageParams = call_params

\* a render with SHARPNESS = 0 has returned a frame that differs from its input:
\* the last stage handed back the object of the stage before it
C21_Witness ==
    /\ prog = "color_correct"
    /\ rpc = "key" /\ arg_ref # 0
    /\ call_params[N_SHARPNESS] = 0
    /\ Len(heap) = 5 /\ img_ref = 5
    /\ heap[img_ref] # src_frame
    /\ heap[arg_ref] = src_frame

\* C22: in playback mode no key makes a call that writes a device setting
\* (cam.set_camera_settings, cam.set_camera_settings_roi): the last handler
\* issued no device call and the device registers are as the camera opened them.
C22_PlaybackNoDeviceWrite ==
    (prog = "color_correct" /\ is_playback) =>
        /\ cam_calls = <<>>
        /\ \E dv \in DevInitVals :
             cam_vals = [r \in DeviceRegs |-> IF r = "LED_STATUS" THEN 1 ELSE dv]

\* a playback session in which 'l' switched led_on off while the device register
\* of the LED kept its value
C22_Witness ==
    /\ is_playback /\ mainpc = "loop"
    /\ last_key = 108
    /\ led_on = FALSE
    /\ cam_vals["LED_STATUS"] = 1
    /\ cam_calls = <<>>

\* C23: the store commands have disjoint effects.  Increment / Decrement change
\* at most the entry of the active setting and leave the other seven entries and
\* the active setting alone; CycleActive changes the active setting and no stored
\* value; Reset changes stored values and leaves the active setting alone; the
\* store has the same eight keys in every reachable state.
C23_DisjointEffects ==
    /\ DOMAIN proc_vals = EightNames
    /\ (last_key \in {43, 45}) =>
          /\ camera_settings = prev_setting
          /\ \A n \in EightNames \ {EntryOf(prev_setting)} : proc_vals[n] = prev_vals[n]
    /\ (last_key = 115) => proc_vals = prev_vals
    /\ (last_key = 114) => camera_settings = prev_setting

\* a playback session in which the active setting was moved off BRIGHTNESS and an
\* Increment then raised the entry of that setting by one
C23_Witness ==
    /\ is_playback /\ last_key = 43 /\ inc_outcome = "stored"
    /\ prev_setting = "HUE" /\ camera_settings = "HUE"
    /\ proc_vals[N_HUE] = prev_vals[N_HUE] + 1
    /\ \A n \in EightNames \ {N_HUE} : proc_vals[n] = prev_vals[n]

====
